---- MODULE Spec2Model ----
(***************************************************************************)
(* A model of the mirroring reverse proxy of proxyServer.go: the rewrite   *)
(* engine modifyWikipediaContent, computed byte by byte as the regular     *)
(* expressions and the replace function of the source compute it, and the  *)
(* request handlers proxyHandler and staticHandler, one task per request;  *)
(* and of the exercises that stand beside it: the FinanceManager, the      *)
(* worker pool of processLogs, the goroutines of logParser, the loop of    *)
(* ServerWithTimeout, the OrderBuilder, and merge.                         *)
(* A byte string is a sequence of one-character strings.                   *)
(***************************************************************************)
EXTENDS Integers, Sequences, FiniteSets, TLC

\* ---------------------------------------------------------------- bounds
\* The longest document, counted in fragments of Parts.
MaxParts == 2
\* The number of requests the server handles concurrently.
NumRequests == 2

\* The entries the three ledgers hold together.
MaxEntries == 2

\* The lines the producer sends to processLogs.
MaxLines == 2

\* The log records of the file logParser reads.
MaxRecords == 2

\* The rounds the clients of ServerWithTimeout play.
MaxRounds == 2

\* The calls made on one OrderBuilder.
MaxCalls == 3

\* The longest of the two slices given to merge, and their largest number.
MaxNums == 2

MaxNumber == 3

\* ------------------------------------------- package strings and bytes
Min(S) == CHOOSE x \in S : \A y \in S : x <= y

Max(S) == CHOOSE x \in S : \A y \in S : x >= y

\* s[i:] starts with lit (i counted from 1).
HasAt(s, i, lit) ==
    /\ i >= 1
    /\ i + Len(lit) - 1 <= Len(s)
    /\ \A k \in 1..Len(lit) : s[i + k - 1] = lit[k]

HasPrefix(s, prefix) == HasAt(s, 1, prefix)

\* strings.Index, counted from 1; 0 when sub does not occur.
Index(s, sub) ==
    LET at == {i \in 1..(Len(s) - Len(sub) + 1) : HasAt(s, i, sub)}
    IN  IF at = {} THEN 0 ELSE Min(at)

Contains(s, sub) == \E i \in 1..(Len(s) - Len(sub) + 1) : HasAt(s, i, sub)

\* strings.Replace(s, old, new, 1) and bytes.Replace(s, old, new, 1).
ReplaceFirst(s, old, new) ==
    LET i == Index(s, old)
    IN  IF i = 0 THEN s
        ELSE SubSeq(s, 1, i - 1) \o new \o SubSeq(s, i + Len(old), Len(s))

\* strings.TrimPrefix
TrimPrefix(s, prefix) ==
    IF HasPrefix(s, prefix) THEN SubSeq(s, Len(prefix) + 1, Len(s)) ELSE s

\* ------------------------------------------------------------- literals
\* text/html
textHtml ==
    <<"t","e","x","t","/","h","t","m","l">>

\* wikipedia.org
wikipediaOrg ==
    <<"w","i","k","i","p","e","d","i","a",".","o","r","g">>

\* The mirror domain mistyped: m.wikipedia.org
mWikipediaOrg_dotted ==
    <<"m",".","w","i","k","i","p","e","d","i","a",".","o","r","g">>

\* m-wikipedia.org
mWikipediaOrg ==
    <<"m","-","w","i","k","i","p","e","d","i","a",".","o","r","g">>

\* </head>
headEndTag ==
    <<"<","/","h","e","a","d",">">>

\* \n<link rel="stylesheet" href="https://wikipedia.org/w/load.php?debug=false&lang=en&modules=site.styles&only=styles&skin=vector">\n<link rel="stylesheet" href="/static/custom.css">\n<script src="/static/custom.js"></script>\n</head>
customStyles ==
    <<"\n","<","l","i","n","k"," ","r","e","l","=","\"","s","t","y","l","e","s","h","e",
      "e","t","\""," ","h","r","e","f","=","\"","h","t","t","p","s",":","/","/","w","i",
      "k","i","p","e","d","i","a",".","o","r","g","/","w","/","l","o","a","d",".","p",
      "h","p","?","d","e","b","u","g","=","f","a","l","s","e","&","l","a","n","g","=",
      "e","n","&","m","o","d","u","l","e","s","=","s","i","t","e",".","s","t","y","l",
      "e","s","&","o","n","l","y","=","s","t","y","l","e","s","&","s","k","i","n","=",
      "v","e","c","t","o","r","\"",">","\n","<","l","i","n","k"," ","r","e","l","=",
      "\"","s","t","y","l","e","s","h","e","e","t","\""," ","h","r","e","f","=","\"",
      "/","s","t","a","t","i","c","/","c","u","s","t","o","m",".","c","s","s","\"",">",
      "\n","<","s","c","r","i","p","t"," ","s","r","c","=","\"","/","s","t","a","t","i",
      "c","/","c","u","s","t","o","m",".","j","s","\"",">","<","/","s","c","r","i","p",
      "t",">","\n","<","/","h","e","a","d",">">>

\* text/html; charset=UTF-8
CtHtmlCharset ==
    <<"t","e","x","t","/","h","t","m","l",";"," ","c","h","a","r","s","e","t","=","U",
      "T","F","-","8">>

\* text/css
CtCss ==
    <<"t","e","x","t","/","c","s","s">>

\* ------------------------------------------------------- package regexp
\* A pattern is a sequence of elements: a literal, an optional character of a
\* class ([..]?), a greedy or a lazy repetition of a negated class ([^..]*,
\* [^..]*?).
Lit(l) == [kind |-> "lit", lit |-> l, set |-> {}]

Opt(S) == [kind |-> "opt", lit |-> <<>>, set |-> S]

StarNot(S) == [kind |-> "star", lit |-> <<>>, set |-> S]

LazyNot(S) == [kind |-> "lazy", lit |-> <<>>, set |-> S]

\* The end of the longest run of characters outside S that starts at i.
RunEnd(s, i, S) ==
    LET stops == {j \in i..Len(s) : s[j] \in S}
    IN  IF stops = {} THEN Len(s) + 1 ELSE Min(stops)

\* The position after the match of re[k..] at s[i..] that the leftmost-first
\* (backtracking) order prefers, 0 when there is none.
RECURSIVE MatchFrom(_, _, _, _)
MatchFrom(re, k, s, i) ==
    IF k > Len(re) THEN i
    ELSE LET e == re[k]
             rest(j) == MatchFrom(re, k + 1, s, j)
         IN  CASE e.kind = "lit" ->
                    IF HasAt(s, i, e.lit) THEN rest(i + Len(e.lit)) ELSE 0
               [] e.kind = "opt" ->
                    LET taken == IF i <= Len(s) /\ s[i] \in e.set
                                 THEN rest(i + 1) ELSE 0
                    IN  IF taken # 0 THEN taken ELSE rest(i)
               [] e.kind = "star" ->
                    LET ok == {j \in i..RunEnd(s, i, e.set) : rest(j) # 0}
                    IN  IF ok = {} THEN 0 ELSE rest(Max(ok))
               [] e.kind = "lazy" ->
                    LET ok == {j \in i..RunEnd(s, i, e.set) : rest(j) # 0}
                    IN  IF ok = {} THEN 0 ELSE rest(Min(ok))

MatchEnd(re, s, i) == MatchFrom(re, 1, s, i)

\* -------------------------------------------------- modifyWikipediaContent
\* The patterns, in the order of the source:
\*   1  href="https?://[^/]*wikipedia\.org([^"]*)"
\*   2  href="//[^/]*wikipedia\.org([^"]*)"
\*   3  href="/wiki/([^"]*)"
\*   4  href="/w/([^"]*)"
\*   5  src="//([^"]*)"
\*   6  src="/static/([^"]*)"
\*   7  url\(['"]?//([^'"]*?)['"]?\)
\*   8  @import "//([^"]*)"
\*   9  @import url\("//([^"]*?)"\)
patterns ==
    << << Lit(<<"h","r","e","f","=","\"","h","t","t","p">>), Opt({"s"}),
          Lit(<<":","/","/">>), StarNot({"/"}), Lit(wikipediaOrg),
          StarNot({"\""}), Lit(<<"\"">>) >>,
       << Lit(<<"h","r","e","f","=","\"","/","/">>), StarNot({"/"}),
          Lit(wikipediaOrg), StarNot({"\""}), Lit(<<"\"">>) >>,
       << Lit(<<"h","r","e","f","=","\"","/","w","i","k","i","/">>),
          StarNot({"\""}), Lit(<<"\"">>) >>,
       << Lit(<<"h","r","e","f","=","\"","/","w","/">>),
          StarNot({"\""}), Lit(<<"\"">>) >>,
       << Lit(<<"s","r","c","=","\"","/","/">>),
          StarNot({"\""}), Lit(<<"\"">>) >>,
       << Lit(<<"s","r","c","=","\"","/","s","t","a","t","i","c","/">>),
          StarNot({"\""}), Lit(<<"\"">>) >>,
       << Lit(<<"u","r","l","(">>), Opt({"'", "\""}), Lit(<<"/","/">>),
          LazyNot({"'", "\""}), Opt({"'", "\""}), Lit(<<")">>) >>,
       << Lit(<<"@","i","m","p","o","r","t"," ","\"","/","/">>),
          StarNot({"\""}), Lit(<<"\"">>) >>,
       << Lit(<<"@","i","m","p","o","r","t"," ","u","r","l","(","\"","/","/">>),
          LazyNot({"\""}), Lit(<<"\"",")">>) >> >>

\* The replace function handed to ReplaceAllFunc: the switch over the matched
\* link. A case whose inner tests all fail leaves the switch and the match is
\* returned as it is.
Replacement(link) ==
    CASE Contains(link, <<"/","/">>) ->
            IF Contains(link, wikipediaOrg)
            THEN ReplaceFirst(link, wikipediaOrg, mWikipediaOrg)
            ELSE IF HasPrefix(link, <<"s","r","c","=","\"","/","/">>)
            THEN ReplaceFirst(link, <<"s","r","c","=","\"","/","/">>,
                     <<"s","r","c","=","\"","h","t","t","p","s",":","/","/">>)
            ELSE IF Contains(link, <<"u","r","l","(","/","/">>)
            THEN ReplaceFirst(link, <<"u","r","l","(","/","/">>,
                     <<"u","r","l","(","h","t","t","p","s",":","/","/">>)
            ELSE IF Contains(link, <<"@","i","m","p","o","r","t">>)
            THEN ReplaceFirst(link, <<"/","/">>,
                     <<"h","t","t","p","s",":","/","/">>)
            ELSE link
      [] HasPrefix(link, <<"h","r","e","f","=","\"","/">>) ->
            IF Contains(link, <<"/","w","i","k","i","/">>)
            THEN <<"h","r","e","f","=","\"","h","t","t","p","s",":","/","/">>
                     \o mWikipediaOrg \o SubSeq(link, 7, Len(link)) \o <<"\"">>
            ELSE IF Contains(link, <<"/","w","/">>)
            THEN <<"h","r","e","f","=","\"","h","t","t","p","s",":","/","/">>
                     \o wikipediaOrg \o SubSeq(link, 7, Len(link)) \o <<"\"">>
            ELSE link
      [] HasPrefix(link, <<"s","r","c","=","\"","/">>) ->
            <<"s","r","c","=","\"","h","t","t","p","s",":","/","/">>
                \o wikipediaOrg \o SubSeq(link, 6, Len(link)) \o <<"\"">>
      [] OTHER -> link

\* The text s[p..] with every successive non-overlapping match of re replaced
\* by Replacement of the match; starts holds the positions where re matches.
RECURSIVE ReplaceFrom(_, _, _, _)
ReplaceFrom(re, s, starts, p) ==
    LET next == {i \in starts : i >= p}
    IN  IF next = {} THEN SubSeq(s, p, Len(s))
        ELSE LET i == Min(next)
                 e == MatchEnd(re, s, i)
             IN  SubSeq(s, p, i - 1) \o Replacement(SubSeq(s, i, e - 1))
                     \o ReplaceFrom(re, s, starts, e)

\* (*Regexp).ReplaceAllFunc with the replace function of the source.
ReplaceAllFunc(re, s) ==
    ReplaceFrom(re, s, {i \in 1..Len(s) : MatchEnd(re, s, i) # 0}, 1)

\* The loop over patterns: rule n scans the output of rules 1..n-1.
RECURSIVE ApplyRules(_, _)
ApplyRules(s, n) ==
    IF n = 0 THEN s ELSE ReplaceAllFunc(patterns[n], ApplyRules(s, n - 1))

\* The gate left out: every content type is rewritten.
IsHTML_anyType(contentType) == TRUE

\* The gate: strings.Contains(contentType, "text/html").
IsHTML(contentType) == Contains(contentType, textHtml)

\* bytes.Replace(s, old, new, -1)
RECURSIVE ReplaceEvery(_, _, _)
ReplaceEvery(s, old, new) ==
    LET i == Index(s, old)
    IN  IF i = 0 THEN s
        ELSE SubSeq(s, 1, i - 1) \o new
                 \o ReplaceEvery(SubSeq(s, i + Len(old), Len(s)), old, new)

\* The injection with the count of bytes.Replace left unbounded: before
\* every </head>.
InjectHead_everyTag(s) == ReplaceEvery(s, headEndTag, customStyles)

\* The injection before the first </head>.
InjectHead(s) ==
    IF Contains(s, headEndTag) THEN ReplaceFirst(s, headEndTag, customStyles)
    ELSE s

modifyWikipediaContent(content, contentType) ==
    IF ~IsHTML(contentType) THEN content
    ELSE InjectHead(ApplyRules(content, Len(patterns)))

\* ------------------------------------------------- the engine in memory
\* The byte slices of a call are buffers of a heap, bufs[id] the bytes of
\* buffer id. A result written over the buffer it was computed from.
Allocate_inPlace(bufs, from, bytes) ==
    [bufs |-> [bufs EXCEPT ![from] = bytes], id |-> from]

\* ReplaceAllFunc and bytes.Replace return a buffer of their own, filled with
\* bytes computed from buffer from, which they only read.
Allocate(bufs, from, bytes) == [bufs |-> Append(bufs, bytes), id |-> Len(bufs) + 1]

\* modified := content, then modified = re.ReplaceAllFunc(modified, ...) for
\* the first n patterns: id is the buffer modified points to.
RECURSIVE RulesInMemory(_, _, _)
RulesInMemory(bufs, arg, n) ==
    IF n = 0 THEN [bufs |-> bufs, id |-> arg]
    ELSE LET prev == RulesInMemory(bufs, arg, n - 1)
         IN  Allocate(prev.bufs, prev.id,
                      ReplaceAllFunc(patterns[n], prev.bufs[prev.id]))

\* modifyWikipediaContent on the buffer arg: the heap after the call, and the
\* buffer the call returns.
modifyInMemory(bufs, arg, contentType) ==
    IF ~IsHTML(contentType) THEN [bufs |-> bufs, arg |-> arg, result |-> arg]
    ELSE LET ruled == RulesInMemory(bufs, arg, Len(patterns))
             injected ==
                 IF Contains(ruled.bufs[ruled.id], headEndTag)
                 THEN Allocate(ruled.bufs, ruled.id, InjectHead(ruled.bufs[ruled.id]))
                 ELSE ruled
         IN  [bufs |-> injected.bufs, arg |-> arg, result |-> injected.id]

\* ------------------------------------------------------ input fragments
\* href="https://en.wikipedia.org/wiki/Go"
LinkSub ==
    <<"h","r","e","f","=","\"","h","t","t","p","s",":","/","/","e","n",".","w","i","k",
      "i","p","e","d","i","a",".","o","r","g","/","w","i","k","i","/","G","o","\"">>

\* href="/wiki/Cat"
LinkWiki ==
    <<"h","r","e","f","=","\"","/","w","i","k","i","/","C","a","t","\"">>

\* href="/w/index.php"
LinkW ==
    <<"h","r","e","f","=","\"","/","w","/","i","n","d","e","x",".","p","h","p","\"">>

\* href="https://m-wikipedia.org/wiki/Go"
LinkMirror ==
    <<"h","r","e","f","=","\"","h","t","t","p","s",":","/","/","m","-","w","i","k","i",
      "p","e","d","i","a",".","o","r","g","/","w","i","k","i","/","G","o","\"">>

\* href="/wiki//dev/null"
LinkWikiSlashes ==
    <<"h","r","e","f","=","\"","/","w","i","k","i","/","/","d","e","v","/","n","u","l",
      "l","\"">>

\* href="/w/x/wiki/y"
LinkWWiki ==
    <<"h","r","e","f","=","\"","/","w","/","x","/","w","i","k","i","/","y","\"">>

\* href="http://wikipedia.org/"
LinkHttp ==
    <<"h","r","e","f","=","\"","h","t","t","p",":","/","/","w","i","k","i","p","e","d",
      "i","a",".","o","r","g","/","\"">>

\* href="//en.wikipedia.org/x"
LinkProto ==
    <<"h","r","e","f","=","\"","/","/","e","n",".","w","i","k","i","p","e","d","i","a",
      ".","o","r","g","/","x","\"">>

\* src="//upload.wikimedia.org/a.png"
SrcProto ==
    <<"s","r","c","=","\"","/","/","u","p","l","o","a","d",".","w","i","k","i","m","e",
      "d","i","a",".","o","r","g","/","a",".","p","n","g","\"">>

\* src="/static/a.png"
SrcStatic ==
    <<"s","r","c","=","\"","/","s","t","a","t","i","c","/","a",".","p","n","g","\"">>

\* url(//x.org/a.css)
CssUrl ==
    <<"u","r","l","(","/","/","x",".","o","r","g","/","a",".","c","s","s",")">>

\* src="//en.wikipedia.org/a.png"
SrcProtoWiki ==
    <<"s","r","c","=","\"","/","/","e","n",".","w","i","k","i","p","e","d","i","a",".",
      "o","r","g","/","a",".","p","n","g","\"">>

\* url('//x.org/a.png')
CssUrlSingle ==
    <<"u","r","l","(","'","/","/","x",".","o","r","g","/","a",".","p","n","g","'",")">>

\* url("//x.org/a.png")
CssUrlDouble ==
    <<"u","r","l","(","\"","/","/","x",".","o","r","g","/","a",".","p","n","g","\"",
      ")">>

\* @import "//x.org/a.css"
ImportBare ==
    <<"@","i","m","p","o","r","t"," ","\"","/","/","x",".","o","r","g","/","a",".","c",
      "s","s","\"">>

\* @import url("//x.org/b.css")
ImportUrl ==
    <<"@","i","m","p","o","r","t"," ","u","r","l","(","\"","/","/","x",".","o","r","g",
      "/","b",".","c","s","s","\"",")">>

\* src="//cdn.org/url(//wikipedia.org/a)"
SrcNested ==
    <<"s","r","c","=","\"","/","/","c","d","n",".","o","r","g","/","u","r","l","(","/",
      "/","w","i","k","i","p","e","d","i","a",".","o","r","g","/","a",")","\"">>

\* <b>Go</b>
PlainText ==
    <<"<","b",">","G","o","<","/","b",">">>

\* ------------------------------------------------- the proxy's handlers
\* http.Error: the status, the plain-text headers and the message with a
\* line feed.
HttpError(msg, code) ==
    [status |-> code,
     headers |-> {<<"Content-Type",
                    <<"t","e","x","t","/","p","l","a","i","n",";"," ","c","h","a","r",
                      "s","e","t","=","u","t","f","-","8">> >>,
                  <<"X-Content-Type-Options", <<"n","o","s","n","i","f","f">> >>},
     body |-> msg \o <<"\n">>]

\* A handler that sets headers and writes a body answers 200.
HttpOK(headers, body) == [status |-> 200, headers |-> headers, body |-> body]

\* fmt.Sprint of a length: its decimal digits.
RECURSIVE Sprint(_)
Sprint(n) ==
    LET digit == <<"0","1","2","3","4","5","6","7","8","9">>[(n % 10) + 1]
    IN  IF n < 10 THEN <<digit>> ELSE Sprint(n \div 10) \o <<digit>>

\* filepath.Ext: the suffix from the last dot of the last path element.
Ext(path) ==
    LET dots == {i \in 1..Len(path) :
                    path[i] = "." /\ \A j \in i..Len(path) : path[j] # "/"}
    IN  IF dots = {} THEN <<>> ELSE SubSeq(path, Max(dots), Len(path))

\* mime.TypeByExtension, its built-in table cut to the extensions of Paths.
TypeByExtension(ext) ==
    CASE ext = <<".","c","s","s">> ->
            <<"t","e","x","t","/","c","s","s",";"," ","c","h","a","r","s","e","t","=",
              "u","t","f","-","8">>
      [] ext = <<".","j","s">> ->
            <<"t","e","x","t","/","j","a","v","a","s","c","r","i","p","t",";"," ",
              "c","h","a","r","s","e","t","=","u","t","f","-","8">>
      [] OTHER -> <<>>

\* http.NewRequest fails on a URL that url.Parse rejects: here a % that no two
\* hexadecimal digits follow.
NewRequestFails(url) ==
    LET hex == {"0","1","2","3","4","5","6","7","8","9",
                "a","b","c","d","e","f","A","B","C","D","E","F"}
    IN  \E i \in 1..Len(url) :
            /\ url[i] = "%"
            /\ ~(i + 2 <= Len(url) /\ url[i + 1] \in hex /\ url[i + 2] \in hex)

\* WIKIPEDIA_BASE_URL + path
wikipediaURL(path) ==
    <<"h","t","t","p","s",":","/","/">> \o wikipediaOrg \o path

staticPrefix == <<"/","s","t","a","t","i","c","/">>

resourcePrefix == <<"/","w","/">>

customCss == <<"c","u","s","t","o","m",".","c","s","s">>

customJs == <<"c","u","s","t","o","m",".","j","s">>

\* The bytes os.ReadFile returns for a file of ./static that is on the disk.
FileContent(filename) ==
    IF filename = customCss THEN <<"b","o","d","y","{","}">>
    ELSE <<"g","o","(",")">>

\* The read of an allowed file failed, with the status a low-level error
\* would get.
staticReadError_500 ==
    HttpError(<<"F","i","l","e"," ","n","o","t"," ","f","o","u","n","d">>, 500)

\* os.ReadFile failed: http.Error(w, "File not found", http.StatusNotFound).
staticReadError ==
    HttpError(<<"F","i","l","e"," ","n","o","t"," ","f","o","u","n","d">>, 404)

\* The answer of staticHandler to path, with files the readable files of
\* ./static: the response, and the number of files it read.
staticHandler(path, files) ==
    LET filename == TrimPrefix(path, staticPrefix)
        served(type) ==
            IF filename \notin files
            THEN [resp |-> staticReadError, reads |-> 1]
            ELSE [resp |-> HttpOK({<<"Content-Type", type>>,
                                   <<"Cache-Control",
                                     <<"p","u","b","l","i","c",","," ","m","a","x","-",
                                       "a","g","e","=","8","6","4","0","0">> >>},
                                  FileContent(filename)),
                  reads |-> 1]
    IN  CASE filename = customCss ->
                served(<<"t","e","x","t","/","c","s","s">>)
          [] filename = customJs ->
                served(<<"a","p","p","l","i","c","a","t","i","o","n","/","j","a","v",
                         "a","s","c","r","i","p","t">>)
          [] OTHER ->
                \* http.NotFound
                [resp |-> HttpError(<<"4","0","4"," ","p","a","g","e"," ","n","o","t",
                                      " ","f","o","u","n","d">>, 404),
                 reads |-> 0]

\* Every method passes the test.
MethodAllowed_any(method) == TRUE

\* r.Method != http.MethodGet
MethodAllowed(method) == method = "GET"

\* The test of the static branch left out.
IsStatic_never(path) == FALSE

\* The branch of proxyHandler a GET path takes.
IsStatic(path) == HasPrefix(path, staticPrefix)

IsResource(path) ==
    HasPrefix(path, resourcePrefix) \/ HasPrefix(path, staticPrefix)

\* The resource branch passes the fetched body through the rewrite engine.
resourceResponse_rewritten(path, body, ctype) ==
    LET type == IF ctype = <<>> THEN TypeByExtension(Ext(path)) ELSE ctype
    IN  HttpOK({<<"Content-Type", type>>}, modifyWikipediaContent(body, ctype))

\* The response of the resource branch to a fetched body.
resourceResponse(path, body, ctype) ==
    LET type == IF ctype = <<>> THEN TypeByExtension(Ext(path)) ELSE ctype
    IN  HttpOK({<<"Content-Type", type>>}, body)

\* The document branch computes Content-Length from the upstream payload.
documentResponse_upstreamLength(body, ctype) ==
    LET modifiedContent == modifyWikipediaContent(body, ctype)
    IN  HttpOK({<<"Content-Type", ctype>>,
                <<"Content-Length", Sprint(Len(body))>>,
                <<"Server", <<"W","i","k","i","P","r","o","x","y","/","1",".","0">> >>},
               modifiedContent)

\* The response of the document branch to a fetched body.
documentResponse(body, ctype) ==
    LET modifiedContent == modifyWikipediaContent(body, ctype)
    IN  HttpOK({<<"Content-Type", ctype>>,
                <<"Content-Length", Sprint(Len(modifiedContent))>>,
                <<"Server", <<"W","i","k","i","P","r","o","x","y","/","1",".","0">> >>},
               modifiedContent)

\* The 500 of the branch whose fetch failed.
fetchErrorResponse(path) ==
    IF IsResource(path)
    THEN HttpError(<<"E","r","r","o","r"," ","f","e","t","c","h","i","n","g"," ","r",
                     "e","s","o","u","r","c","e">>, 500)
    ELSE HttpError(<<"E","r","r","o","r"," ","f","e","t","c","h","i","n","g"," ","c",
                     "o","n","t","e","n","t">>, 500)

\* --------------------------------------------------------------- inputs
Parts ==
    {LinkSub, LinkWiki, LinkW, LinkMirror, LinkWikiSlashes, LinkWWiki, LinkHttp,
     LinkProto, SrcProto, SrcStatic, CssUrl, PlainText, headEndTag}

RECURSIVE Flatten(_)
Flatten(ps) == IF ps = <<>> THEN <<>> ELSE Head(ps) \o Flatten(Tail(ps))

Documents == {Flatten(ps) : ps \in UNION {[1..n -> Parts] : n \in 1..MaxParts}}

\* Documents of asset references: src attributes, url() and @import.
AssetParts ==
    {SrcProto, SrcProtoWiki, SrcNested, CssUrl, CssUrlSingle, CssUrlDouble,
     ImportBare, ImportUrl, PlainText}

AssetDocuments == {Flatten(ps) : ps \in UNION {[1..n -> AssetParts] : n \in 1..MaxParts}}

ContentTypes == {textHtml, CtHtmlCharset, CtCss, <<>>}

Reqs == 1..NumRequests

Methods == {"GET", "POST"}

Paths ==
    {staticPrefix \o customCss, staticPrefix \o customJs,
     staticPrefix \o <<"u","n","k","n","o","w","n",".","t","x","t">>,
     resourcePrefix \o <<"a",".","c","s","s">>,
     <<"/","w","i","k","i","/","G","o">>,
     <<"/","w","i","k","i","/","1","0","0","%","z","z">>}

\* What the origin may answer: a body and the Content-Type header with it.
Bodies == {LinkWiki \o headEndTag, PlainText}

UpstreamTypes == {textHtml, CtCss, <<>>}

\* The failures of client.Do (transport, the 30 s timeout) and of io.ReadAll.
FetchErrors == {"transport", "timeout", "read"}

\* What ./static may hold: both files, or custom.css alone (the read of
\* custom.js then fails).
Disks == {{customCss, customJs}, {customCss}}

\* ---------------------------------------------------------------- state
VARIABLES
    \* one run of the rewrite engine, and the heap of its byte slices
    content, contentType, modified, pc, mem,
    \* the server: per request, the request, the handler's position, what
    \* fetchResource returned, the response, and the calls it made
    reqs, task, fetched, resp, fetches, sent, reads,
    \* the readable files of ./static
    disk

VARIABLES
    \* the finance manager and what its last call returned
    fm, ret

VARIABLES
    \* processLogs: the lines of the producer and how many of them it has
    \* sent, the channel input, the context, the five workers, the collector
    \* with its mutex, and what processLogs returned
    pending, input, ctx, workers, collector, mu, metrics

VARIABLES
    \* logParser: the lines of the input file, the goroutine of each line,
    \* the two channels, the two wait groups, the two files with the
    \* goroutine that writes each, the closer, and the position of logParser
    inputLines, senders, chan, wg, wwg, file, writer, closer, parserPc

VARIABLES
    \* ServerWithTimeout: its position with str and reg, the time its select
    \* has waited, and the channel operations it has completed
    server, clock, trace

VARIABLES
    \* the OrderBuilder, the calls made on it, and what Build returned
    b, calls, built

VARIABLES
    \* merge: its arguments and locals, and the arguments as they were given
    frame, given

rewriteVars == <<content, contentType, modified, pc, mem>>

serverVars == <<reqs, task, fetched, resp, fetches, sent, reads, disk>>

financeVars == <<fm, ret>>

\* The state of the exercises that stand apart from the proxy.
logVars == <<pending, input, ctx, workers, collector, mu, metrics>>

parserVars == <<inputLines, senders, chan, wg, wwg, file, writer, closer, parserPc>>

timeoutVars == <<server, clock, trace>>

builderVars == <<b, calls, built>>

mergeVars == <<frame, given>>

exerciseVars ==
    <<financeVars, logVars, parserVars, timeoutVars, builderVars, mergeVars>>

\* What the actions of one exercise leave alone.
exceptFinance ==
    <<rewriteVars, serverVars, logVars, parserVars, timeoutVars, builderVars,
      mergeVars>>

exceptLogs ==
    <<rewriteVars, serverVars, financeVars, parserVars, timeoutVars,
      builderVars, mergeVars>>

exceptParser ==
    <<rewriteVars, serverVars, financeVars, logVars, timeoutVars, builderVars,
      mergeVars>>

exceptTimeout ==
    <<rewriteVars, serverVars, financeVars, logVars, parserVars, builderVars,
      mergeVars>>

exceptBuilder ==
    <<rewriteVars, serverVars, financeVars, logVars, parserVars, timeoutVars,
      mergeVars>>

exceptMerge ==
    <<rewriteVars, serverVars, financeVars, logVars, parserVars, timeoutVars,
      builderVars>>

vars == <<rewriteVars, serverVars, exerciseVars>>

NoRequest == [method |-> "", path |-> <<>>]

NoFetch == [err |-> "", body |-> <<>>, contentType |-> <<>>]

NoResponse == [status |-> 0, headers |-> {}, body |-> <<>>]

\* NewFinanceManager: three empty ledgers.
NewFinanceManager == [incomes |-> <<>>, expenses |-> <<>>, investments |-> <<>>]

NoCall == [op |-> ""]

FinanceIdle ==
    /\ fm = NewFinanceManager
    /\ ret = NoCall

\* for i := 0; i < 5; i++: the worker goroutines of processLogs.
NumWorkers == 5

Workers == 1..NumWorkers

\* The resources of the log lines.
Resources == {"/api/products", "/api/orders"}

\* newMetricsCollector: empty maps (a missing key of resourceCounts reads as
\* 0; uniqueUsers is the set of its (hour, user) pairs) and zero counters.
newMetricsCollector ==
    [resourceCounts |-> [resource \in Resources |-> 0], uniqueUsers |-> {},
     totalRequests |-> 0, successRequests |-> 0]

NoEntry == [Resource |-> "", Hour |-> "", UserID |-> "", StatusCode |-> 0]

NoMetrics == [returned |-> FALSE]

\* A worker at its select, holding nothing.
AtSelect == [pc |-> "select", entry |-> NoEntry, tmp |-> <<>>]

LogsIdle ==
    /\ pending = [lines |-> <<>>, sent |-> 0]
    /\ input = [buf |-> <<>>, closed |-> FALSE]
    /\ ctx = "live"
    /\ workers = [w \in Workers |-> AtSelect]
    /\ collector = newMetricsCollector
    /\ mu = 0
    /\ metrics = NoMetrics

\* The two channels of logParser, each with the file its writer fills.
Channels == {"errLogChan", "normalLogChan"}

NoWriter == [pc |-> "none", log |-> <<>>]

ParserIdle ==
    /\ inputLines = <<>>
    /\ senders = <<>>
    /\ chan = [c \in Channels |-> "open"]
    /\ wg = 0
    /\ wwg = 0
    /\ file = [c \in Channels |-> <<>>]
    /\ writer = [c \in Channels |-> NoWriter]
    /\ closer = "none"
    /\ parserPc = "idle"

TimeoutIdle ==
    /\ server = [pc |-> "idle"]
    /\ clock = 0
    /\ trace = <<>>

BuilderIdle ==
    /\ b = [err |-> "nil"]
    /\ calls = <<>>
    /\ built = [returned |-> FALSE]

MergeIdle ==
    /\ frame = [pc |-> "idle"]
    /\ given = <<>>

LaterIdle == ParserIdle /\ TimeoutIdle /\ BuilderIdle /\ MergeIdle

ExercisesIdle == FinanceIdle /\ LogsIdle /\ LaterIdle

\* ---------------------------------------------------- the rewrite engine
RewriteIdle ==
    /\ content = <<>>
    /\ contentType = <<>>
    /\ modified = <<>>
    /\ pc = "start"
    /\ mem = [bufs |-> <<>>, arg |-> 0, result |-> 0]

ServerIdle ==
    /\ reqs = [r \in Reqs |-> NoRequest]
    /\ task = [r \in Reqs |-> "idle"]
    /\ fetched = [r \in Reqs |-> NoFetch]
    /\ resp = [r \in Reqs |-> NoResponse]
    /\ fetches = [r \in Reqs |-> 0]
    /\ sent = [r \in Reqs |-> 0]
    /\ reads = [r \in Reqs |-> 0]

\* The caller holds content in buffer 1; nothing is returned yet.
CallerMemory == mem = [bufs |-> <<content>>, arg |-> 1, result |-> 0]

InitRewrite ==
    /\ content \in Documents
    /\ contentType \in ContentTypes
    /\ modified = <<>>
    /\ pc = "start"
    /\ CallerMemory
    /\ ServerIdle
    /\ disk = {customCss, customJs}
    /\ ExercisesIdle

\* modified := modifyWikipediaContent(content, contentType)
Modify ==
    /\ pc = "start"
    /\ modified' = modifyWikipediaContent(content, contentType)
    /\ mem' = modifyInMemory(mem.bufs, mem.arg, contentType)
    /\ pc' = "done"
    /\ UNCHANGED <<content, contentType, serverVars, exerciseVars>>

\* A second pass, over the output of the first.
ModifyAgain ==
    /\ pc = "done"
    /\ content' = modified
    /\ modified' = modifyWikipediaContent(modified, contentType)
    /\ mem' = modifyInMemory(mem.bufs, mem.result, contentType)
    /\ pc' = "again"
    /\ UNCHANGED <<contentType, serverVars, exerciseVars>>

NextRewrite == Modify \/ ModifyAgain

SpecRewrite == InitRewrite /\ [][NextRewrite]_vars

\* The engine over the documents of asset references.
InitAssets ==
    /\ content \in AssetDocuments
    /\ contentType \in ContentTypes
    /\ modified = <<>>
    /\ pc = "start"
    /\ CallerMemory
    /\ ServerIdle
    /\ disk = {customCss, customJs}
    /\ ExercisesIdle

SpecAssets == InitAssets /\ [][NextRewrite]_vars

\* ------------------------------------------------------------ the server
Init ==
    /\ RewriteIdle
    /\ ServerIdle
    /\ disk \in Disks
    /\ ExercisesIdle

\* The end of a handler: the response is written and the task is over.
Respond(r, request, response) ==
    /\ reqs' = [reqs EXCEPT ![r] = request]
    /\ resp' = [resp EXCEPT ![r] = response]
    /\ task' = [task EXCEPT ![r] = "done"]

\* proxyHandler, a method other than GET: 405.
MethodNotAllowed(r) ==
    \E method \in Methods, path \in Paths :
        /\ task[r] = "idle"
        /\ ~MethodAllowed(method)
        /\ Respond(r, [method |-> method, path |-> path],
                   HttpError(<<"M","e","t","h","o","d"," ","n","o","t"," ","a","l",
                               "l","o","w","e","d">>, 405))
        /\ UNCHANGED <<fetched, fetches, sent, reads, disk, rewriteVars, exerciseVars>>

\* proxyHandler, a GET under /static/: staticHandler answers.
ServeStatic(r) ==
    \E method \in Methods, path \in Paths :
        /\ task[r] = "idle"
        /\ MethodAllowed(method)
        /\ IsStatic(path)
        /\ LET served == staticHandler(path, disk)
           IN  /\ Respond(r, [method |-> method, path |-> path], served.resp)
               /\ reads' = [reads EXCEPT ![r] = @ + served.reads]
        /\ UNCHANGED <<fetched, fetches, sent, disk, rewriteVars, exerciseVars>>

\* proxyHandler, any other GET: fetchResource is called; http.NewRequest
\* rejects the URL and the handler answers 500 at once.
RequestRejected(r) ==
    \E method \in Methods, path \in Paths :
        /\ task[r] = "idle"
        /\ MethodAllowed(method)
        /\ ~IsStatic(path)
        /\ NewRequestFails(wikipediaURL(path))
        /\ fetches' = [fetches EXCEPT ![r] = @ + 1]
        /\ fetched' = [fetched EXCEPT ![r] = [NoFetch EXCEPT !.err = "request"]]
        /\ Respond(r, [method |-> method, path |-> path], fetchErrorResponse(path))
        /\ UNCHANGED <<sent, reads, disk, rewriteVars, exerciseVars>>

\* proxyHandler, any other GET: fetchResource is called and client.Do sends
\* the request; the task waits for the origin.
SendUpstream(r) ==
    \E method \in Methods, path \in Paths :
        /\ task[r] = "idle"
        /\ MethodAllowed(method)
        /\ ~IsStatic(path)
        /\ ~NewRequestFails(wikipediaURL(path))
        /\ reqs' = [reqs EXCEPT ![r] = [method |-> method, path |-> path]]
        /\ task' = [task EXCEPT ![r] = "fetching"]
        /\ fetches' = [fetches EXCEPT ![r] = @ + 1]
        /\ sent' = [sent EXCEPT ![r] = @ + 1]
        /\ UNCHANGED <<fetched, resp, reads, disk, rewriteVars, exerciseVars>>

\* The failed fetch is tried again instead of answered.
FetchFails_retry(r) ==
    /\ task[r] = "fetching"
    /\ fetches[r] < 3
    /\ fetches' = [fetches EXCEPT ![r] = @ + 1]
    /\ sent' = [sent EXCEPT ![r] = @ + 1]
    /\ UNCHANGED <<reqs, task, fetched, resp, reads, disk, rewriteVars, exerciseVars>>

\* The failure of one fetch fails every fetch in flight on the shared client.
FetchFails_shared(r) ==
    \E err \in FetchErrors :
        /\ task[r] = "fetching"
        /\ fetched' = [q \in Reqs |->
                          IF task[q] = "fetching" THEN [NoFetch EXCEPT !.err = err]
                          ELSE fetched[q]]
        /\ resp' = [q \in Reqs |->
                       IF task[q] = "fetching" THEN fetchErrorResponse(reqs[q].path)
                       ELSE resp[q]]
        /\ task' = [q \in Reqs |-> IF task[q] = "fetching" THEN "done" ELSE task[q]]
        /\ UNCHANGED <<reqs, fetches, sent, reads, disk, rewriteVars, exerciseVars>>

\* fetchResource returns an error (client.Do failed or timed out, or the body
\* could not be read): the handler answers 500.
FetchFails(r) ==
    \E err \in FetchErrors :
        /\ task[r] = "fetching"
        /\ fetched' = [fetched EXCEPT ![r] = [NoFetch EXCEPT !.err = err]]
        /\ Respond(r, reqs[r], fetchErrorResponse(reqs[r].path))
        /\ UNCHANGED <<fetches, sent, reads, disk, rewriteVars, exerciseVars>>

\* fetchResource returns the body of a /w/ path: it is written as it is.
ResourceFetched(r) ==
    \E body \in Bodies, ctype \in UpstreamTypes :
        /\ task[r] = "fetching"
        /\ IsResource(reqs[r].path)
        /\ fetched' = [fetched EXCEPT
                          ![r] = [err |-> "none", body |-> body, contentType |-> ctype]]
        /\ Respond(r, reqs[r], resourceResponse(reqs[r].path, body, ctype))
        /\ UNCHANGED <<fetches, sent, reads, disk, rewriteVars, exerciseVars>>

\* The handler of a document never returns from the fetch.
DocumentFetched_hangs(r) ==
    /\ task[r] = "fetching"
    /\ ~IsResource(reqs[r].path)
    /\ task' = [task EXCEPT ![r] = "hung"]
    /\ UNCHANGED <<reqs, fetched, resp, fetches, sent, reads, disk, rewriteVars,
                   exerciseVars>>

\* fetchResource returns the body of a document: it is rewritten and written.
DocumentFetched(r) ==
    \E body \in Bodies, ctype \in UpstreamTypes :
        /\ task[r] = "fetching"
        /\ ~IsResource(reqs[r].path)
        /\ fetched' = [fetched EXCEPT
                          ![r] = [err |-> "none", body |-> body, contentType |-> ctype]]
        /\ Respond(r, reqs[r], documentResponse(body, ctype))
        /\ UNCHANGED <<fetches, sent, reads, disk, rewriteVars, exerciseVars>>

Next ==
    \E r \in Reqs :
        \/ MethodNotAllowed(r)
        \/ ServeStatic(r)
        \/ RequestRejected(r)
        \/ SendUpstream(r)
        \/ FetchFails(r)
        \/ ResourceFetched(r)
        \/ DocumentFetched(r)

Spec == Init /\ [][Next]_vars

\* client.Do returns within the 30 s Timeout of client, with a response or
\* with an error, and the handler then runs to its end: a fetch in flight is
\* answered.
FetchReturns(r) == FetchFails(r) \/ ResourceFetched(r) \/ DocumentFetched(r)

SpecLive == Spec /\ \A r \in Reqs : WF_vars(FetchReturns(r))

\* --------------------------------------------------- the finance manager
\* Instants are hours on the line of one common year, in one location:
\* 0 is January 1, 00:00.
DaysIn(month) ==
    CASE month \in {4, 6, 9, 11} -> 30
      [] month = 2 -> 28
      [] OTHER -> 31

RECURSIVE DaysBefore(_)
DaysBefore(month) ==
    IF month <= 1 THEN 0 ELSE DaysBefore(month - 1) + DaysIn(month - 1)

\* time.Date(year, month, day, hour, 0, 0, 0, time.Local): a day or a month
\* out of range runs over into the next or the previous one.
Date(month, day, hour) == (DaysBefore(month) + day - 1) * 24 + hour

MonthOf(t) == CHOOSE month \in 1..12 : Date(month, 1, 0) <= t /\ t < Date(month + 1, 1, 0)

DayOf(t) == (t \div 24) - DaysBefore(MonthOf(t)) + 1

\* t.AddDate(0, months, days): the date of t moved, its clock kept.
AddDate(t, months, days) == Date(MonthOf(t) + months, DayOf(t) + days, t % 24)

\* The dates of the incomes, of the expenses and of the queries: the first
\* instant of January, the noon of its last day, the first instant of
\* February.
Dates == {Date(1, 1, 0), Date(1, 31, 12), Date(2, 1, 0)}

\* The dates of the investments, which no method reads.
InvestmentDates == {Date(1, 1, 0)}

\* Amounts are float64 in the code; the model takes whole amounts, which
\* float64 holds and adds exactly.
Amounts == {-1, 0, 1, 2}

Months == {1, 2}

\* A zero amount passes the test.
Rejected_negativeOnly(amount) == amount < 0

\* if amount <= 0 { return fmt.Errorf(...) }
Rejected(amount) == amount <= 0

\* The end of the range is left out.
InRange_exclusiveEnd(date, startDate, endDate) ==
    (date > startDate \/ date = startDate) /\ date < endDate

\* (Date.After(startDate) || Date.Equal(startDate)) &&
\* (Date.Before(endDate) || Date.Equal(endDate))
InRange(date, startDate, endDate) ==
    (date > startDate \/ date = startDate) /\ (date < endDate \/ date = endDate)

\* The loop of GetTotalIncome and GetTotalExpenses: total += Amount for the
\* entries in range, in the order of the ledger.
RECURSIVE SumInRange(_, _, _)
SumInRange(entries, startDate, endDate) ==
    IF entries = <<>> THEN 0
    ELSE LET entry == entries[Len(entries)]
             rest == SumInRange(SubSeq(entries, 1, Len(entries) - 1),
                                startDate, endDate)
         IN  IF InRange(entry.Date, startDate, endDate)
             THEN rest + entry.Amount ELSE rest

GetTotalIncome(m, startDate, endDate) == SumInRange(m.incomes, startDate, endDate)

GetTotalExpenses(m, startDate, endDate) == SumInRange(m.expenses, startDate, endDate)

RECURSIVE SumValues(_)
SumValues(entries) ==
    IF entries = <<>> THEN 0
    ELSE SumValues(SubSeq(entries, 1, Len(entries) - 1)) + entries[Len(entries)].Value

GetTotalInvestments(m) == SumValues(m.investments)

\* The report: its title line and its four lines of totals, each a label and
\* the number printed after it.
GenerateMonthlyReport(m, month) ==
    LET startDate == Date(month, 1, 0)
        endDate == AddDate(startDate, 1, -1)
        totalIncome == GetTotalIncome(m, startDate, endDate)
        totalExpenses == GetTotalExpenses(m, startDate, endDate)
        totalInvestments == GetTotalInvestments(m)
        netProfit == totalIncome - totalExpenses
    IN  << <<"Financial Report for", month>>,
           <<"Total Income:", totalIncome>>,
           <<"Total Expenses:", totalExpenses>>,
           <<"Total Investments:", totalInvestments>>,
           <<"Net Profit/Loss:", netProfit>> >>

Entries(m) == Len(m.incomes) + Len(m.expenses) + Len(m.investments)

\* What an Add call returns and leaves in the ledger named field.
Add(op, field, entry, amount) ==
    /\ ~Rejected(amount) => Entries(fm) < MaxEntries
    /\ IF Rejected(amount)
       THEN /\ fm' = fm
            /\ ret' = [op |-> op, amount |-> amount, err |-> "must be positive"]
       ELSE /\ fm' = [fm EXCEPT ![field] = Append(@, entry)]
            /\ ret' = [op |-> op, amount |-> amount, err |-> "nil"]
    /\ UNCHANGED exceptFinance

AddIncome ==
    \E date \in Dates, amount \in Amounts :
        Add("AddIncome", "incomes", [Date |-> date, Amount |-> amount], amount)

AddExpense ==
    \E date \in Dates, amount \in Amounts :
        Add("AddExpense", "expenses", [Date |-> date, Amount |-> amount], amount)

AddInvestment ==
    \E date \in InvestmentDates, value \in Amounts :
        Add("AddInvestment", "investments", [Date |-> date, Value |-> value], value)

TotalIncome ==
    \E startDate \in Dates, endDate \in Dates :
        /\ ret' = [op |-> "GetTotalIncome", startDate |-> startDate,
                   endDate |-> endDate,
                   total |-> GetTotalIncome(fm, startDate, endDate)]
        /\ UNCHANGED <<fm, exceptFinance>>

TotalExpenses ==
    \E startDate \in Dates, endDate \in Dates :
        /\ ret' = [op |-> "GetTotalExpenses", startDate |-> startDate,
                   endDate |-> endDate,
                   total |-> GetTotalExpenses(fm, startDate, endDate)]
        /\ UNCHANGED <<fm, exceptFinance>>

TotalInvestments ==
    /\ ret' = [op |-> "GetTotalInvestments", total |-> GetTotalInvestments(fm)]
    /\ UNCHANGED <<fm, exceptFinance>>

MonthlyReport ==
    \E month \in Months :
        /\ ret' = [op |-> "GenerateMonthlyReport", month |-> month,
                   report |-> GenerateMonthlyReport(fm, month)]
        /\ UNCHANGED <<fm, exceptFinance>>

InitFinance ==
    /\ RewriteIdle
    /\ ServerIdle
    /\ disk = {customCss, customJs}
    /\ ExercisesIdle

NextFinance ==
    \/ AddIncome
    \/ AddExpense
    \/ AddInvestment
    \/ TotalIncome
    \/ TotalExpenses
    \/ TotalInvestments
    \/ MonthlyReport

SpecFinance == InitFinance /\ [][NextFinance]_vars

\* ------------------------------------------------------------ processLogs
\* A line is the sequence of its fields, as strings.Split(line, "|") cuts it.
LineProducts ==
    <<"2024-01-15T14:22:33Z", "192.168.1.1", "user123", "GET", "/api/products", "200">>

LineOrders ==
    <<"2024-01-15T14:23:33Z", "192.168.1.2", "user456", "GET", "/api/orders", "500">>

\* A line with five fields.
LineShort == <<"2024-01-15T15:22:33Z", "192.168.1.3", "user789", "GET", "/api/users">>

LogLines == {LineProducts, LineOrders, LineShort}

\* time.Parse(time.RFC3339, field) and Format("2006-01-02-15") of its result;
\* the empty string for a field that does not parse.
HourOf(field) ==
    CASE field = "2024-01-15T14:22:33Z" -> "2024-01-15-14"
      [] field = "2024-01-15T14:23:33Z" -> "2024-01-15-14"
      [] field = "2024-01-15T15:22:33Z" -> "2024-01-15-15"
      [] OTHER -> ""

\* strconv.Atoi(field); -1 for a field that is no number.
StatusOf(field) ==
    CASE field = "200" -> 200
      [] field = "500" -> 500
      [] OTHER -> -1

parseLogLine(line) ==
    IF Len(line) # 6 THEN [err |-> "invalid log format", entry |-> NoEntry]
    ELSE IF HourOf(line[1]) = "" THEN [err |-> "invalid timestamp", entry |-> NoEntry]
    ELSE IF StatusOf(line[6]) = -1
    THEN [err |-> "invalid status code", entry |-> NoEntry]
    ELSE [err |-> "nil",
          entry |-> [Resource |-> line[5], Hour |-> HourOf(line[1]),
                     UserID |-> line[3], StatusCode |-> StatusOf(line[6])]]

\* The mutex is never held.
MutexFree_always(holder) == TRUE

\* mc.mu.Lock() returns when no goroutine holds the mutex.
MutexFree(holder) == holder = 0

\* The orders sort.Slice may leave the entries of resourceCounts in: by
\* count, largest first, entries of equal count in any order; cut to three.
TopResources(mc) ==
    LET present == {resource \in Resources : mc.resourceCounts[resource] > 0}
        n == Cardinality(present)
        orders == {s \in [1..n -> present] :
                      /\ \A i, j \in 1..n : i # j => s[i] # s[j]
                      /\ \A i \in 1..(n - 1) :
                            mc.resourceCounts[s[i]] >= mc.resourceCounts[s[i + 1]]}
    IN  {[i \in 1..Min({3, n}) |->
             [Resource |-> s[i], Count |-> mc.resourceCounts[s[i]]]] : s \in orders}

\* The hours of uniqueUsers, each with the number of its users.
UniqueUsersPerHr(mc) ==
    {<<hour, Cardinality({p \in mc.uniqueUsers : p[1] = hour})>> :
        hour \in {p[1] : p \in mc.uniqueUsers}}

\* successRequests / totalRequests * 100, as the fraction it is computed
\* from; 0.0 when there is no request.
SuccessRate(mc) ==
    IF mc.totalRequests > 0 THEN <<mc.successRequests * 100, mc.totalRequests>>
    ELSE <<0, 1>>

\* The producer sends its next line on the channel.
Send ==
    /\ pending.sent < Len(pending.lines)
    /\ ~input.closed
    /\ input' = [input EXCEPT !.buf = Append(@, pending.lines[pending.sent + 1])]
    /\ pending' = [pending EXCEPT !.sent = @ + 1]
    /\ UNCHANGED <<ctx, workers, collector, mu, metrics, exceptLogs>>

\* The producer closes the channel: after its last line, or, as the reader of
\* logParserAnalist does, when the context is done.
CloseInput ==
    /\ ~input.closed
    /\ pending.sent = Len(pending.lines) \/ ctx = "done"
    /\ input' = [input EXCEPT !.closed = TRUE]
    /\ UNCHANGED <<pending, ctx, workers, collector, mu, metrics, exceptLogs>>

\* The context times out or is cancelled.
CtxDone ==
    /\ ctx = "live"
    /\ ctx' = "done"
    /\ UNCHANGED <<pending, input, workers, collector, mu, metrics, exceptLogs>>

\* case line, ok := <-input, ok: the line is parsed; a line that does not
\* parse is reported and the worker is back at its select.
Receive(w) ==
    /\ workers[w].pc = "select"
    /\ input.buf # <<>>
    /\ input' = [input EXCEPT !.buf = Tail(@)]
    /\ LET parsed == parseLogLine(Head(input.buf))
       IN  workers' = [workers EXCEPT
                          ![w] = IF parsed.err # "nil" THEN AtSelect
                                 ELSE [pc |-> "entry", entry |-> parsed.entry,
                                       tmp |-> <<>>]]
    /\ UNCHANGED <<pending, ctx, collector, mu, metrics, exceptLogs>>

\* case line, ok := <-input, !ok: the channel is closed and drained.
SeeClosed(w) ==
    /\ workers[w].pc = "select"
    /\ input.buf = <<>> /\ input.closed
    /\ workers' = [workers EXCEPT ![w].pc = "exit"]
    /\ UNCHANGED <<pending, input, ctx, collector, mu, metrics, exceptLogs>>

\* The workers do not watch the context.
SeeDone_ignored(w) ==
    /\ workers[w].pc = "select"
    /\ FALSE
    /\ UNCHANGED vars

\* case <-ctx.Done(): taken whenever the context is done, lines waiting or
\* not.
SeeDone(w) ==
    /\ workers[w].pc = "select"
    /\ ctx = "done"
    /\ workers' = [workers EXCEPT ![w].pc = "exit"]
    /\ UNCHANGED <<pending, input, ctx, collector, mu, metrics, exceptLogs>>

\* processEntry: mc.mu.Lock(), and the counters are read.
Lock(w) ==
    /\ workers[w].pc = "entry"
    /\ MutexFree(mu)
    /\ mu' = w
    /\ workers' = [workers EXCEPT
                      ![w].pc = "update",
                      ![w].tmp = [count |-> collector.resourceCounts[
                                                workers[w].entry.Resource],
                                  total |-> collector.totalRequests,
                                  success |-> collector.successRequests]]
    /\ UNCHANGED <<pending, input, ctx, collector, metrics, exceptLogs>>

\* processEntry: the counters are written, the user is recorded, and the
\* deferred Unlock runs.
Store(w) ==
    /\ workers[w].pc = "update"
    /\ LET entry == workers[w].entry
           tmp == workers[w].tmp
           ok == entry.StatusCode >= 200 /\ entry.StatusCode < 300
       IN  collector' =
               [resourceCounts |->
                    [collector.resourceCounts EXCEPT ![entry.Resource] = tmp.count + 1],
                uniqueUsers |-> collector.uniqueUsers \cup {<<entry.Hour, entry.UserID>>},
                totalRequests |-> tmp.total + 1,
                successRequests |-> IF ok THEN tmp.success + 1 ELSE tmp.success]
    /\ mu' = 0
    /\ workers' = [workers EXCEPT ![w] = AtSelect]
    /\ UNCHANGED <<pending, input, ctx, metrics, exceptLogs>>

\* wg.Wait() returns when every worker has exited; computeMetrics, and
\* processLogs returns.
ReturnMetrics ==
    /\ ~metrics.returned
    /\ \A w \in Workers : workers[w].pc = "exit"
    /\ \E top \in TopResources(collector) :
          metrics' = [returned |-> TRUE, err |-> "nil", TopResources |-> top,
                      UniqueUsersPerHr |-> UniqueUsersPerHr(collector),
                      SuccessRate |-> SuccessRate(collector)]
    /\ UNCHANGED <<pending, input, ctx, workers, collector, mu, exceptLogs>>

InitLogs ==
    /\ RewriteIdle
    /\ ServerIdle
    /\ disk = {customCss, customJs}
    /\ FinanceIdle
    /\ LaterIdle
    /\ pending \in {[lines |-> lines, sent |-> 0] :
                       lines \in UNION {[1..n -> LogLines] : n \in 0..MaxLines}}
    /\ input = [buf |-> <<>>, closed |-> FALSE]
    /\ ctx = "live"
    /\ workers = [w \in Workers |-> AtSelect]
    /\ collector = newMetricsCollector
    /\ mu = 0
    /\ metrics = NoMetrics

NextLogs ==
    \/ Send
    \/ CloseInput
    \/ CtxDone
    \/ ReturnMetrics
    \/ \E w \in Workers :
          \/ Receive(w)
          \/ SeeClosed(w)
          \/ SeeDone(w)
          \/ Lock(w)
          \/ Store(w)

SpecLogs == InitLogs /\ [][NextLogs]_vars

\* The scheduler runs every goroutine that can take a step, and wg.Wait
\* returns once the counter is zero.
FairLogs ==
    /\ WF_vars(ReturnMetrics)
    /\ \A w \in Workers :
          WF_vars(Receive(w) \/ SeeClosed(w) \/ SeeDone(w) \/ Lock(w) \/ Store(w))

SpecLogsLive == SpecLogs /\ FairLogs

\* ====================================================== the rewrite engine
Count(s, sub) == Cardinality({i \in 1..(Len(s) - Len(sub) + 1) : HasAt(s, i, sub)})

\* The attribute href="url".
Href(url) == <<"h","r","e","f","=","\"">> \o url \o <<"\"">>

\* A run of the engine has returned: the first pass, or the second.
Returned == pc \in {"done", "again"}

\* A run of the engine over an HTML document has returned.
RewrittenHTML == Returned /\ Contains(contentType, textHtml)

\* C1: for a content type that does not contain "text/html" the engine returns
\* content byte for byte: no link is rewritten and nothing is injected, also
\* when content holds links the patterns match and </head>.
C1_NonHtmlReturnedAsIs ==
    (Returned /\ ~Contains(contentType, textHtml)) => modified = content

C1_Witness ==
    /\ Returned
    /\ contentType = CtCss
    /\ Contains(content, LinkWiki)
    /\ Contains(content, headEndTag)
    /\ modified = content

NoOpenValueBefore(s, i) ==
    LET quotes == {j \in 1..(i - 1) : s[j] = "\""}
        gap == SubSeq(s, Max(quotes) + 1, i - 1)
    IN  quotes = {} \/ (~Contains(gap, <<"/">>) /\ ~Contains(gap, wikipediaOrg))

WikiSuffixes == {<<"C","a","t">>, <<"/","d","e","v","/","n","u","l","l">>}

\* C3, as claimed: for every path suffix P without a double quote, an HTML
\* document that holds href="/wiki/P" comes out holding
\* href="https://m-wikipedia.org/wiki/P".
C3_WikiLinkToMirror ==
    RewrittenHTML =>
        \A P \in WikiSuffixes :
            Contains(content, Href(<<"/","w","i","k","i","/">> \o P)) =>
                Contains(modified,
                         Href(<<"h","t","t","p","s",":","/","/">> \o mWikipediaOrg
                              \o <<"/","w","i","k","i","/">> \o P))

\* The path suffixes P of the links href="/w/P" of the documents.
ResourceSuffixes ==
    {<<"i","n","d","e","x",".","p","h","p">>, <<"x","/","w","i","k","i","/","y">>}

\* C4, as claimed: for every path suffix P without a double quote, an HTML
\* document that holds href="/w/P" comes out holding
\* href="https://wikipedia.org/w/P", and never the link on the mirror domain.
C4_ResourceLinkToOrigin ==
    RewrittenHTML =>
        \A P \in ResourceSuffixes :
            Contains(content, Href(<<"/","w","/">> \o P)) =>
                /\ Contains(modified,
                            Href(<<"h","t","t","p","s",":","/","/">> \o wikipediaOrg
                                 \o <<"/","w","/">> \o P))
                /\ ~Contains(modified,
                             <<"h","t","t","p","s",":","/","/">> \o mWikipediaOrg
                                 \o <<"/","w","/">> \o P)

\* C5, as claimed: a link that a previous pass rewrote to the mirror domain,
\* href="https://m-wikipedia.org/wiki/P", is left as it is by the next pass.
C5_MirrorLinkFixedPoint ==
    (RewrittenHTML /\ pc = "again") =>
        \A P \in WikiSuffixes :
            LET link == Href(<<"h","t","t","p","s",":","/","/">> \o mWikipediaOrg
                             \o <<"/","w","i","k","i","/">> \o P)
            IN  Contains(content, link) => Contains(modified, link)

\* The three injected tags, with the line feeds around them: customStyles
\* without its closing </head>.
injectedBlock == SubSeq(customStyles, 1, Len(customStyles) - Len(headEndTag))

\* C6: an HTML document with </head> comes out with exactly one occurrence of
\* the block of three tags (two <link>, one <script>), right before the first
\* </head>, and with as many </head> as it had; one without </head> comes out
\* with no tag added and no byte changed but by the link rewrites.
C6_HeadInjection ==
    RewrittenHTML =>
        LET links == Count(modified, <<"<","l","i","n","k">>)
                         - Count(content, <<"<","l","i","n","k">>)
            scripts == Count(modified, <<"<","s","c","r","i","p","t">>)
                           - Count(content, <<"<","s","c","r","i","p","t">>)
            first == Index(modified, headEndTag)
        IN  IF Contains(content, headEndTag)
            THEN /\ Count(modified, injectedBlock) = 1
                 /\ HasAt(modified, first - Len(injectedBlock), injectedBlock)
                 /\ Count(modified, headEndTag) = Count(content, headEndTag)
                 /\ links = 2 /\ scripts = 1
            ELSE /\ ~Contains(modified, headEndTag)
                 /\ links = 0 /\ scripts = 0
                 /\ modified = ApplyRules(content, Len(patterns))

C6_Witness ==
    /\ RewrittenHTML
    /\ Count(content, headEndTag) = 2
    /\ Count(modified, injectedBlock) = 1
    /\ Count(modified, headEndTag) = 2

\* =============================================================== the server
\* The values of a header of a response.
HeaderOf(response, name) == {h[2] : h \in {x \in response.headers : x[1] = name}}

IsGet(r) == task[r] # "idle" /\ reqs[r].method = "GET"

\* C7: a request whose method is not GET ends with 405 whatever its path, the
\* paths under /static/ and /w/ included, and causes no upstream fetch and no
\* read of a static file.
C7_NonGetIs405 ==
    \A r \in Reqs :
        (task[r] # "idle" /\ reqs[r].method # "GET") =>
            /\ task[r] = "done"
            /\ resp[r].status = 405
            /\ fetches[r] = 0 /\ sent[r] = 0 /\ reads[r] = 0

C7_Witness ==
    \E r, q \in Reqs :
        /\ reqs[r].method = "POST" /\ HasPrefix(reqs[r].path, staticPrefix)
        /\ reqs[q].method = "POST" /\ HasPrefix(reqs[q].path, resourcePrefix)
        /\ resp[r].status = 405 /\ resp[q].status = 405

\* C8: GET /static/<name> is answered 200 only for custom.css (text/css) and
\* custom.js (application/javascript) when the file can be read, then with
\* Cache-Control "public, max-age=86400"; any other name gets 404 and no file
\* is read; an allowed name whose read fails gets 404, not 500.
C8_StaticAllowList ==
    \A r \in Reqs :
        (task[r] = "done" /\ IsGet(r) /\ HasPrefix(reqs[r].path, staticPrefix)) =>
            LET name == SubSeq(reqs[r].path, Len(staticPrefix) + 1, Len(reqs[r].path))
                allowed == name \in {customCss, customJs}
            IN  /\ resp[r].status = 200 <=> (allowed /\ name \in disk)
                /\ resp[r].status = 200 =>
                      /\ HeaderOf(resp[r], "Content-Type") =
                            {IF name = customCss
                             THEN <<"t","e","x","t","/","c","s","s">>
                             ELSE <<"a","p","p","l","i","c","a","t","i","o","n","/",
                                    "j","a","v","a","s","c","r","i","p","t">>}
                      /\ HeaderOf(resp[r], "Cache-Control") =
                            {<<"p","u","b","l","i","c",","," ","m","a","x","-","a","g",
                               "e","=","8","6","4","0","0">>}
                      /\ resp[r].body = FileContent(name)
                /\ resp[r].status # 200 => resp[r].status = 404
                /\ reads[r] = IF allowed THEN 1 ELSE 0
                /\ fetches[r] = 0 /\ sent[r] = 0

C8_Witness ==
    \E r, q \in Reqs :
        /\ IsGet(r) /\ reqs[r].path = staticPrefix \o customCss
        /\ resp[r].status = 200
        /\ IsGet(q) /\ reqs[q].path = staticPrefix \o customJs
        /\ resp[q].status = 404 /\ reads[q] = 1

\* C9: a GET on a /w/ path or a document path whose fetch fails (the request
\* cannot be built, the transport fails or times out, the body cannot be
\* read) is answered 500 with the error message as its body, and a request
\* makes at most one fetch attempt.
C9_FetchFailureIs500 ==
    \A r \in Reqs :
        /\ fetches[r] <= 1 /\ sent[r] <= 1
        /\ (task[r] = "done" /\ fetched[r].err \in {"request"} \cup FetchErrors) =>
              /\ IsGet(r) /\ ~HasPrefix(reqs[r].path, staticPrefix)
              /\ resp[r].status = 500
              /\ resp[r].body = fetchErrorResponse(reqs[r].path).body
              /\ fetches[r] = 1

C9_Witness ==
    \E r, q \in Reqs :
        /\ task[r] = "done" /\ fetched[r].err = "read"
        /\ HasPrefix(reqs[r].path, resourcePrefix) /\ resp[r].status = 500
        /\ task[q] = "done" /\ fetched[q].err = "request" /\ resp[q].status = 500

\* What a request is answered, from the request, the answer of the origin to
\* it and the files of ./static alone.
ExpectedResponse(request, fetch, files) ==
    IF request.method # "GET"
    THEN HttpError(<<"M","e","t","h","o","d"," ","n","o","t"," ","a","l","l","o","w",
                     "e","d">>, 405)
    ELSE IF HasPrefix(request.path, staticPrefix)
    THEN staticHandler(request.path, files).resp
    ELSE IF fetch.err # "none" THEN fetchErrorResponse(request.path)
    ELSE IF HasPrefix(request.path, resourcePrefix)
    THEN resourceResponse(request.path, fetch.body, fetch.contentType)
    ELSE documentResponse(fetch.body, fetch.contentType)

\* C10: the step in which the fetch of a request fails or times out answers
\* that request 500 and changes nothing of any other request, in flight or
\* answered; and what a request is answered depends on that request and the
\* origin's answer to it alone, whatever the other requests did.
C10_FailureIsolated ==
    [][\A r \in Reqs :
          /\ (fetched'[r] # fetched[r] /\ fetched'[r].err # "none") =>
                /\ resp'[r].status = 500
                /\ \A q \in Reqs \ {r} :
                      /\ reqs'[q] = reqs[q] /\ task'[q] = task[q]
                      /\ fetched'[q] = fetched[q] /\ resp'[q] = resp[q]
          /\ task'[r] = "done" =>
                resp'[r] = ExpectedResponse(reqs'[r], fetched'[r], disk')
          /\ task[r] = "done" => (task'[r] = "done" /\ resp'[r] = resp[r])]_vars

C10_Witness ==
    \E r, q \in Reqs :
        /\ task[r] = "done" /\ fetched[r].err = "timeout" /\ resp[r].status = 500
        /\ task[q] = "fetching"

\* The fetch of a request succeeded and the request is answered.
FetchedOK(r) == task[r] = "done" /\ IsGet(r) /\ fetched[r].err = "none"

\* C11: a GET under /w/ whose fetch succeeds is answered the upstream bytes
\* as they are, the engine not applied even when the upstream type is
\* text/html, with the upstream Content-Type when it is not empty and else
\* the type of the extension of the path (text/css; charset=utf-8 for .css).
C11_ResourcePassedThrough ==
    \A r \in Reqs :
        (FetchedOK(r) /\ HasPrefix(reqs[r].path, resourcePrefix)) =>
            /\ resp[r].status = 200
            /\ resp[r].body = fetched[r].body
            /\ HeaderOf(resp[r], "Content-Type") =
                  {IF fetched[r].contentType # <<>> THEN fetched[r].contentType
                   ELSE IF Ext(reqs[r].path) = <<".","c","s","s">>
                   THEN <<"t","e","x","t","/","c","s","s",";"," ","c","h","a","r",
                          "s","e","t","=","u","t","f","-","8">>
                   ELSE <<>>}

C11_Witness ==
    \E r, q \in Reqs :
        /\ FetchedOK(r) /\ HasPrefix(reqs[r].path, resourcePrefix)
        /\ fetched[r].contentType = textHtml
        /\ Contains(fetched[r].body, LinkWiki \o headEndTag)
        /\ resp[r].body = fetched[r].body
        /\ FetchedOK(q) /\ HasPrefix(reqs[q].path, resourcePrefix)
        /\ fetched[q].contentType = <<>>
        /\ HeaderOf(resp[q], "Content-Type") # {<<>>}

\* The number a string of decimal digits writes.
RECURSIVE Atoi(_)
Atoi(digits) ==
    IF digits = <<>> THEN 0
    ELSE LET last == digits[Len(digits)]
             value == CHOOSE d \in 0..9 :
                          <<"0","1","2","3","4","5","6","7","8","9">>[d + 1] = last
         IN  10 * Atoi(SubSeq(digits, 1, Len(digits) - 1)) + value

\* A path of the document branch.
IsDocumentPath(path) ==
    ~HasPrefix(path, staticPrefix) /\ ~HasPrefix(path, resourcePrefix)

\* C12: a GET on a document path whose fetch succeeds is answered with
\* Content-Type the upstream content type, Server WikiProxy/1.0 and
\* Content-Length the length of the body that is written, which is the body
\* after the rewrites and the injection and not the upstream payload.
C12_DocumentHeaders ==
    \A r \in Reqs :
        (FetchedOK(r) /\ IsDocumentPath(reqs[r].path)) =>
            /\ resp[r].body =
                  modifyWikipediaContent(fetched[r].body, fetched[r].contentType)
            /\ HeaderOf(resp[r], "Content-Type") = {fetched[r].contentType}
            /\ HeaderOf(resp[r], "Server") =
                  {<<"W","i","k","i","P","r","o","x","y","/","1",".","0">>}
            /\ \E length \in HeaderOf(resp[r], "Content-Length") :
                  /\ HeaderOf(resp[r], "Content-Length") = {length}
                  /\ Atoi(length) = Len(resp[r].body)

C12_Witness ==
    \E r \in Reqs :
        /\ FetchedOK(r) /\ IsDocumentPath(reqs[r].path)
        /\ fetched[r].contentType = textHtml
        /\ Len(resp[r].body) > Len(fetched[r].body)
        /\ \E length \in HeaderOf(resp[r], "Content-Length") :
              Atoi(length) = Len(resp[r].body)

\* ====================================================== the finance manager
AddOps == {"AddIncome", "AddExpense", "AddInvestment"}

\* C13: a step in which AddIncome, AddExpense or AddInvestment is called with
\* an amount that is not positive returns an error and leaves the three
\* ledgers as they were, so every total over every range is what it was
\* before the call.
C13_RejectedAddChangesNothing ==
    [][(ret'.op \in AddOps /\ ret'.amount <= 0) =>
          /\ ret'.err # "nil"
          /\ fm' = fm
          /\ GetTotalInvestments(fm') = GetTotalInvestments(fm)
          /\ \A startDate \in Dates, endDate \in Dates :
                /\ GetTotalIncome(fm', startDate, endDate)
                      = GetTotalIncome(fm, startDate, endDate)
                /\ GetTotalExpenses(fm', startDate, endDate)
                      = GetTotalExpenses(fm, startDate, endDate)]_vars

C13_Witness ==
    /\ ret.op = "AddInvestment"
    /\ ret.amount = 0
    /\ ret.err # "nil"
    /\ Len(fm.incomes) = 1
    /\ Len(fm.investments) = 1

RECURSIVE SumSeq(_)
SumSeq(numbers) == IF numbers = <<>> THEN 0 ELSE Head(numbers) + SumSeq(Tail(numbers))

\* The sum of the amounts of the entries whose date is from startDate to
\* endDate, both included.
SumBetween(entries, startDate, endDate) ==
    LET kept == SelectSeq(entries,
                          LAMBDA e : startDate <= e.Date /\ e.Date <= endDate)
    IN  SumSeq([i \in 1..Len(kept) |-> kept[i].Amount])

\* C14: the ledgers hold accepted entries only (positive amounts), and after
\* any sequence of Add calls GetTotalIncome(start, end) and
\* GetTotalExpenses(start, end) return the sum of the amounts of the entries
\* of their kind dated from start to end, both bounds included, and
\* GetTotalInvestments the sum of the values of all the investments.
C14_TotalsAreSums ==
    /\ \A i \in 1..Len(fm.incomes) : fm.incomes[i].Amount > 0
    /\ \A i \in 1..Len(fm.expenses) : fm.expenses[i].Amount > 0
    /\ \A i \in 1..Len(fm.investments) : fm.investments[i].Value > 0
    /\ ret.op = "GetTotalIncome" =>
          ret.total = SumBetween(fm.incomes, ret.startDate, ret.endDate)
    /\ ret.op = "GetTotalExpenses" =>
          ret.total = SumBetween(fm.expenses, ret.startDate, ret.endDate)
    /\ ret.op = "GetTotalInvestments" =>
          ret.total = SumSeq([i \in 1..Len(fm.investments) |->
                                 fm.investments[i].Value])

C14_Witness ==
    /\ ret.op = "GetTotalIncome"
    /\ ret.startDate < ret.endDate
    /\ Len(fm.incomes) = 2
    /\ fm.incomes[1].Date = ret.endDate
    /\ fm.incomes[2].Date = ret.startDate
    /\ fm.incomes[1].Amount # fm.incomes[2].Amount
    /\ ret.total = fm.incomes[1].Amount + fm.incomes[2].Amount

\* The sum of the amounts of the entries dated within the calendar month.
SumOfMonth(entries, month) ==
    LET kept == SelectSeq(entries, LAMBDA e : MonthOf(e.Date) = month)
    IN  SumSeq([i \in 1..Len(kept) |-> kept[i].Amount])

\* C15, as claimed: GenerateMonthlyReport(year, month) returns a report that
\* is not empty, whose total income and total expenses count every entry
\* dated within the month, from the first instant of its first day to the
\* last instant of its last day, whose total investments is the sum over all
\* the investments and whose net profit/loss is income minus expenses.
C15_ReportCoversMonth ==
    ret.op = "GenerateMonthlyReport" =>
        LET report == ret.report
        IN  /\ report # <<>>
            /\ report[2][2] = SumOfMonth(fm.incomes, ret.month)
            /\ report[3][2] = SumOfMonth(fm.expenses, ret.month)
            /\ report[4][2] = SumSeq([i \in 1..Len(fm.investments) |->
                                         fm.investments[i].Value])
            /\ report[5][2] = report[2][2] - report[3][2]

\* ================================================ the rewrite engine, rules
Https == <<"h","t","t","p","s",":","/","/">>

\* C16, as claimed: an absolute origin link, href="http://wikipedia.org/" or
\* href="https://en.wikipedia.org/wiki/Go", with no earlier attribute value
\* left open before it, comes out on the mirror domain with the scheme https,
\* host prefix and path kept.
C16_AbsoluteLinkSecure ==
    RewrittenHTML =>
        \A i \in 1..Len(content) :
            NoOpenValueBefore(content, i) =>
                /\ HasAt(content, i, LinkHttp) =>
                      Contains(modified, Href(Https \o mWikipediaOrg \o <<"/">>))
                /\ HasAt(content, i, LinkSub) =>
                      Contains(modified,
                               Href(Https \o <<"e","n",".">> \o mWikipediaOrg
                                    \o <<"/","w","i","k","i","/","G","o">>))

\* C17, as claimed: a protocol-relative origin link,
\* href="//en.wikipedia.org/x", with no earlier attribute value left open
\* before it, comes out as the absolute link href="https://en.m-wikipedia.org/x".
C17_ProtocolRelativeLinkSecure ==
    RewrittenHTML =>
        \A i \in 1..Len(content) :
            (HasAt(content, i, LinkProto) /\ NoOpenValueBefore(content, i)) =>
                Contains(modified,
                         Href(Https \o <<"e","n",".">> \o mWikipediaOrg \o <<"/","x">>))

\* src="//host/a.png" with the scheme https put before the host.
SrcSecure(host) ==
    <<"s","r","c","=","\"">> \o Https \o host \o <<"/","a",".","p","n","g","\"">>

\* C18, as claimed: a protocol-relative asset source, src="//host/a.png",
\* with no earlier attribute value left open before it, comes out as
\* src="https://host/a.png" for every host, upload.wikimedia.org and
\* en.wikipedia.org alike: the scheme is added and the host is kept.
C18_AssetSourceUpgraded ==
    RewrittenHTML =>
        \A i \in 1..Len(content) :
            NoOpenValueBefore(content, i) =>
                /\ HasAt(content, i, SrcProto) =>
                      Contains(modified,
                               SrcSecure(<<"u","p","l","o","a","d",".","w","i","k",
                                           "i","m","e","d","i","a",".","o","r","g">>))
                /\ HasAt(content, i, SrcProtoWiki) =>
                      Contains(modified, SrcSecure(<<"e","n",".">> \o wikipediaOrg))

\* A CSS reference with its first // made https://.
Upgraded(reference) == ReplaceFirst(reference, <<"/","/">>, Https)

\* The forms of a protocol-relative CSS reference: url(//x), url('//x'),
\* url("//x"), @import "//x" and @import url("//x").
CssForms == {CssUrl, CssUrlSingle, CssUrlDouble, ImportBare, ImportUrl}

\* C19, as claimed: each protocol-relative CSS reference of an HTML document,
\* in each of the five forms, with no earlier attribute value left open
\* before it, comes out with https://x where it had //x, host and path kept.
C19_CssReferenceUpgraded ==
    RewrittenHTML =>
        \A i \in 1..Len(content), reference \in CssForms :
            (HasAt(content, i, reference) /\ NoOpenValueBefore(content, i)) =>
                Contains(modified, Upgraded(reference))

\* C20: the engine writes to no byte of its input. After the call the buffer
\* the caller passed holds the bytes it held before, whatever the content
\* type; the result is that same buffer for a type that is not HTML, and a
\* buffer of its own, holding the rewritten bytes, for HTML.
C20_InputNotMutated ==
    Returned =>
        /\ mem.bufs[mem.arg] = content
        /\ mem.bufs[mem.result] = modified
        /\ IsHTML(contentType) => mem.result # mem.arg
        /\ ~IsHTML(contentType) => mem.result = mem.arg

C20_Witness ==
    /\ pc = "done"
    /\ IsHTML(contentType)
    /\ Contains(content, LinkWiki)
    /\ Contains(content, headEndTag)
    /\ modified # content
    /\ mem.bufs[mem.arg] = content
    /\ mem.result # mem.arg

\* ============================================================ the dispatch
\* C21: a GET under /static/ is answered by staticHandler and never reaches
\* the upstream fetcher: it makes no fetch and sends nothing to the origin,
\* for an allowed file and for any other name alike.
C21_StaticNeverFetches ==
    \A r \in Reqs :
        (IsGet(r) /\ HasPrefix(reqs[r].path, staticPrefix)) =>
            /\ task[r] = "done"
            /\ fetches[r] = 0 /\ sent[r] = 0
            /\ fetched[r] = NoFetch
            /\ resp[r] = staticHandler(reqs[r].path, disk).resp

C21_Witness ==
    \E r, q \in Reqs :
        /\ IsGet(r) /\ reqs[r].path = staticPrefix \o customCss
        /\ resp[r].status = 200 /\ fetches[r] = 0
        /\ IsGet(q) /\ HasPrefix(reqs[q].path, staticPrefix)
        /\ resp[q].status = 404 /\ reads[q] = 0 /\ fetches[q] = 0

\* The dispatch outcomes of a request that is answered.
Outcomes(r) ==
    {o \in {"405", "static", "passthrough", "document", "500"} :
        CASE o = "405" -> reqs[r].method # "GET" /\ resp[r].status = 405
          [] o = "static" ->
                IsGet(r) /\ HasPrefix(reqs[r].path, staticPrefix)
                    /\ resp[r].status \in {200, 404}
          [] o = "passthrough" ->
                FetchedOK(r) /\ HasPrefix(reqs[r].path, resourcePrefix)
                    /\ resp[r].status = 200
          [] o = "document" ->
                FetchedOK(r) /\ IsDocumentPath(reqs[r].path) /\ resp[r].status = 200
          [] o = "500" ->
                IsGet(r) /\ fetched[r].err \notin {"", "none"} /\ resp[r].status = 500}

\* C22: an answered request went through exactly one dispatch outcome; its
\* response is written once, in the step that ends the request, and nothing
\* of it changes afterwards; and, the fetch returning within the client
\* timeout, every request that waits for the origin is eventually answered.
C22_OneTerminalResponse ==
    /\ [](\A r \in Reqs :
             /\ task[r] = "done" => Cardinality(Outcomes(r)) = 1
             /\ task[r] # "done" => resp[r] = NoResponse)
    /\ [][\A r \in Reqs :
             /\ resp'[r] # resp[r] => (task[r] # "done" /\ task'[r] = "done")
             /\ task[r] = "done" =>
                   (task'[r] = "done" /\ resp'[r] = resp[r] /\ reqs'[r] = reqs[r])]_vars
    /\ \A r \in Reqs : (task[r] = "fetching") ~> (task[r] = "done")

C22_Witness ==
    \E r, q \in Reqs :
        /\ task[r] = "done" /\ Outcomes(r) = {"500"} /\ fetched[r].err = "timeout"
        /\ task[q] = "done" /\ Outcomes(q) = {"document"}

\* ============================================ the rewrite engine, one pass
\* C23, as claimed: within one pass no later rule alters what an earlier rule
\* rewrote: an HTML input without m-wikipedia.org comes out without
\* m-m-wikipedia.org.
C23_NoDoubleSubstitution ==
    (RewrittenHTML /\ ~Contains(content, mWikipediaOrg)) =>
        ~Contains(modified, <<"m","-">> \o mWikipediaOrg)

Quote == <<"\"">>

\* The root-relative links of the documents: href="/wiki/P", href="/w/P" and
\* src="/static/P".
RootRelative == {LinkWiki, LinkW, SrcStatic}

\* C24, as claimed: a document with a root-relative link comes out with as
\* many double quotes as it had, those of the injected tags apart, and with
\* no "" pair that it did not have: each rewritten attribute ends with one
\* closing quote.
C24_RewrittenAttributeWellFormed ==
    (RewrittenHTML /\ \E link \in RootRelative : Contains(content, link)) =>
        LET injected == IF Contains(content, headEndTag)
                        THEN Count(customStyles, Quote) ELSE 0
        IN  /\ Count(modified, Quote) = Count(content, Quote) + injected
            /\ Count(modified, Quote \o Quote) = Count(content, Quote \o Quote)

\* ============================================================ processLogs
\* The lines of the producer, among its first k, that parse.
WellFormed(k) == {i \in 1..k : parseLogLine(pending.lines[i]).err = "nil"}

SumCounts(counts) == counts["/api/products"] + counts["/api/orders"]

\* C25: the context not expired, processLogs returns after the channel is
\* closed with every line that parses counted exactly once, whatever the
\* interleaving of the five workers: totalRequests is the number of those
\* lines, each resource is counted once per line that names it, and the
\* counts sum to totalRequests; a line that does not parse is skipped and
\* stops no worker, which exits only when the channel is closed and drained.
C25_EveryLineCountedOnce ==
    ctx = "live" =>
        /\ \A w \in Workers :
              workers[w].pc = "exit" => (input.closed /\ input.buf = <<>>)
        /\ metrics.returned =>
              /\ collector.totalRequests = Cardinality(WellFormed(Len(pending.lines)))
              /\ \A resource \in Resources :
                    collector.resourceCounts[resource] =
                        Cardinality({i \in WellFormed(Len(pending.lines)) :
                                        pending.lines[i][5] = resource})
              /\ SumCounts(collector.resourceCounts) = collector.totalRequests
              /\ metrics.SuccessRate = SuccessRate(collector)

C25_Witness ==
    /\ ctx = "live"
    /\ metrics.returned
    /\ pending.lines = <<LineShort, LineProducts>>
    /\ collector.totalRequests = 1

\* C26: processLogs returns only after its five workers have exited, with a
\* nil error and the metrics of the lines processed by then; and it returns
\* once the channel is closed or the context is done, also when the producer
\* never closes the channel.
C26_ReturnsAfterWorkers ==
    /\ [](metrics.returned =>
             /\ \A w \in Workers : workers[w].pc = "exit"
             /\ metrics.err = "nil"
             /\ metrics.TopResources \in TopResources(collector)
             /\ metrics.SuccessRate = SuccessRate(collector)
             /\ collector.totalRequests <= Cardinality(WellFormed(pending.sent)))
    /\ (input.closed \/ ctx = "done") ~> metrics.returned

C26_Witness ==
    /\ metrics.returned
    /\ ctx = "done"
    /\ ~input.closed
    /\ input.buf # <<>>
    /\ collector.totalRequests = 1

\* ------------------------------------------------------------ logParser
\* strings.Split(s, sep) for a separator of one byte.
RECURSIVE Split(_, _)
Split(s, sep) ==
    IF \A x \in 1..Len(s) : s[x] # sep
    THEN <<s>>
    ELSE LET at == Min({x \in 1..Len(s) : s[x] = sep})
         IN  <<SubSeq(s, 1, at - 1)>> \o Split(SubSeq(s, at + 1, Len(s)), sep)

\* strings.Trim(s, cutset) for a cutset of one byte.
Trim(s, cut) ==
    LET kept == {x \in 1..Len(s) : s[x] # cut}
    IN  IF kept = {} THEN <<>> ELSE SubSeq(s, Min(kept), Max(kept))

\* t | ERROR | m | ip
LogError ==
    <<"t"," ","|"," ","E","R","R","O","R"," ","|"," ","m"," ","|"," ","i","p">>

\* t | INFO | m | ip
LogInfo ==
    <<"t"," ","|"," ","I","N","F","O"," ","|"," ","m"," ","|"," ","i","p">>

\* t | INFO | ERROR | ip
LogErrorText ==
    <<"t"," ","|"," ","I","N","F","O"," ","|"," ","E","R","R","O","R"," ","|"," ","i",
      "p">>

\* t | ERROR | m
LogThree ==
    <<"t"," ","|"," ","E","R","R","O","R"," ","|"," ","m">>

LogRecords == {LogError, LogInfo, LogErrorText, LogThree}

\* The bytes of a file of the given records, one to a line; the last line
\* ends the file or is ended by a newline.
RECURSIVE JoinLines(_)
JoinLines(records) ==
    IF records = <<>> THEN <<>>
    ELSE IF Len(records) = 1 THEN Head(records)
    ELSE Head(records) \o <<"\n">> \o JoinLines(Tail(records))

InputFiles ==
    {JoinLines(records) \o ending :
        records \in UNION {[1..len -> LogRecords] : len \in 0..MaxRecords},
        ending \in {<<>>, <<"\n">>}}

ERROR == <<"E","R","R","O","R">>

\* parts := strings.Split(line, "|"), for each line an input file can hold.
parts == [line \in LogRecords \cup {<<>>} |-> Split(line, "|")]

\* logType := parts[1], without the trim.
logType_untrimmed(line) == parts[line][2]

\* logType := strings.Trim(parts[1], " ")
logType(line) == Trim(parts[line][2], " ")

\* No goroutine has panicked: a panic ends the process.
Running == parserPc \notin {"idle", "panic"}

\* wg.Add(1); go func() {...}(): the loop starts the goroutine of the next
\* line, which holds the line of its own iteration.
Spawn ==
    /\ parserPc = "loop"
    /\ \E x \in DOMAIN senders :
          /\ senders[x] = "none"
          /\ \A y \in 1..(x - 1) : senders[y] # "none"
          /\ senders' = [senders EXCEPT ![x] = "start"]
    /\ wg' = wg + 1
    /\ UNCHANGED <<inputLines, chan, wwg, file, writer, closer, parserPc,
                   exceptParser>>

\* After the loop: the closer goroutine, wwg.Add(2) and the two writer
\* goroutines; logParser then stands at wwg.Wait().
StartWriters ==
    /\ parserPc = "loop"
    /\ \A x \in DOMAIN senders : senders[x] # "none"
    /\ closer' = "wait"
    /\ wwg' = 2
    /\ writer' = [c \in Channels |-> [pc |-> "create", log |-> <<>>]]
    /\ parserPc' = "wait"
    /\ UNCHANGED <<inputLines, senders, chan, wg, file, exceptParser>>

\* The goroutine of a line splits it: it panics unless it has four parts,
\* and otherwise stands at its send on the channel of its type.
Parse(x) ==
    /\ Running
    /\ senders[x] = "start"
    /\ IF Len(parts[inputLines[x]]) # 4
       THEN /\ senders' = [senders EXCEPT ![x] = "panic"]
            /\ parserPc' = "panic"
       ELSE /\ senders' = [senders EXCEPT ![x] =
                              IF logType(inputLines[x]) = ERROR
                              THEN "errLogChan" ELSE "normalLogChan"]
            /\ UNCHANGED parserPc
    /\ UNCHANGED <<inputLines, chan, wg, wwg, file, writer, closer,
                   exceptParser>>

\* os.Create in a writer goroutine: the file is there, empty.
Create(c) ==
    /\ Running
    /\ writer[c].pc = "create"
    /\ writer' = [writer EXCEPT ![c].pc = "range"]
    /\ file' = [file EXCEPT ![c] = <<>>]
    /\ UNCHANGED <<inputLines, senders, chan, wg, wwg, closer, parserPc,
                   exceptParser>>

\* The channels have no buffer: a send completes with the receive of
\* logWriter's range that takes it.
Deliver(x, c) ==
    /\ Running
    /\ senders[x] = c
    /\ chan[c] = "open"
    /\ writer[c].pc = "range"
    /\ senders' = [senders EXCEPT ![x] = "sent"]
    /\ writer' = [writer EXCEPT ![c] = [pc |-> "write", log |-> inputLines[x]]]
    /\ UNCHANGED <<inputLines, chan, wg, wwg, file, closer, parserPc,
                   exceptParser>>

\* defer wg.Done() of the goroutine of a line.
Done(x) ==
    /\ Running
    /\ senders[x] = "sent"
    /\ senders' = [senders EXCEPT ![x] = "done"]
    /\ wg' = wg - 1
    /\ UNCHANGED <<inputLines, chan, wwg, file, writer, closer, parserPc,
                   exceptParser>>

\* out.Write([]byte(log)): the bytes of the line, nothing between lines.
Write(c) ==
    /\ Running
    /\ writer[c].pc = "write"
    /\ file' = [file EXCEPT ![c] = @ \o writer[c].log]
    /\ writer' = [writer EXCEPT ![c] = [pc |-> "range", log |-> <<>>]]
    /\ UNCHANGED <<inputLines, senders, chan, wg, wwg, closer, parserPc,
                   exceptParser>>

\* wg.Wait() returns and the closer closes errLogChan.
CloseErr ==
    /\ Running
    /\ closer = "wait"
    /\ wg = 0
    /\ chan' = [chan EXCEPT !["errLogChan"] = "closed"]
    /\ closer' = "closeNormal"
    /\ UNCHANGED <<inputLines, senders, wg, wwg, file, writer, parserPc,
                   exceptParser>>

CloseNormal ==
    /\ Running
    /\ closer = "closeNormal"
    /\ chan' = [chan EXCEPT !["normalLogChan"] = "closed"]
    /\ closer' = "done"
    /\ UNCHANGED <<inputLines, senders, wg, wwg, file, writer, parserPc,
                   exceptParser>>

\* The range of logWriter ends on the closed channel; the writer goroutine
\* returns and its deferred wwg.Done() runs.
RangeEnds(c) ==
    /\ Running
    /\ writer[c].pc = "range"
    /\ chan[c] = "closed"
    /\ writer' = [writer EXCEPT ![c].pc = "done"]
    /\ wwg' = wwg - 1
    /\ UNCHANGED <<inputLines, senders, chan, wg, file, closer, parserPc,
                   exceptParser>>

\* wwg.Wait() returns, and logParser with it.
ParserReturns ==
    /\ parserPc = "wait"
    /\ wwg = 0
    /\ parserPc' = "returned"
    /\ UNCHANGED <<inputLines, senders, chan, wg, wwg, file, writer, closer,
                   exceptParser>>

\* After os.ReadFile and strings.Split(string(input), "\n").
InitParser ==
    /\ RewriteIdle
    /\ ServerIdle
    /\ disk = {customCss, customJs}
    /\ FinanceIdle
    /\ LogsIdle
    /\ TimeoutIdle
    /\ BuilderIdle
    /\ MergeIdle
    /\ inputLines \in {Split(input_, "\n") : input_ \in InputFiles}
    /\ senders = [x \in 1..Len(inputLines) |-> "none"]
    /\ chan = [c \in Channels |-> "open"]
    /\ wg = 0
    /\ wwg = 0
    /\ file = [c \in Channels |-> <<>>]
    /\ writer = [c \in Channels |-> NoWriter]
    /\ closer = "none"
    /\ parserPc = "loop"

NextParser ==
    \/ Spawn
    \/ StartWriters
    \/ \E x \in DOMAIN senders : Parse(x)
    \/ \E c \in Channels : Create(c)
    \/ \E x \in DOMAIN senders, c \in Channels : Deliver(x, c)
    \/ \E x \in DOMAIN senders : Done(x)
    \/ \E c \in Channels : Write(c)
    \/ CloseErr
    \/ CloseNormal
    \/ \E c \in Channels : RangeEnds(c)
    \/ ParserReturns

SpecParser == InitParser /\ [][NextParser]_vars

\* Every goroutine that can run does run.
SpecParserLive == SpecParser /\ WF_vars(NextParser)

\* The orders in which the lines of a set of indices can be written.
Orders(S) == {o \in [1..Cardinality(S) -> S] : \A x, y \in DOMAIN o : o[x] = o[y] => x = y}

RECURSIVE Written(_)
Written(o) == IF o = <<>> THEN <<>> ELSE inputLines[Head(o)] \o Written(Tail(o))

FourFields == \A x \in DOMAIN inputLines : Len(Split(inputLines[x], "|")) = 4

ErrorLines == {x \in DOMAIN inputLines : Trim(Split(inputLines[x], "|")[2], " ") = ERROR}

AllFinished ==
    /\ \A x \in DOMAIN senders : senders[x] = "done"
    /\ closer = "done"
    /\ \A c \in Channels : writer[c].pc = "done"

FilesHoldEachLineOnce ==
    /\ \E o \in Orders(ErrorLines) : file["errLogChan"] = Written(o)
    /\ \E o \in Orders(DOMAIN inputLines \ ErrorLines) :
          file["normalLogChan"] = Written(o)

timeoutErr == "timeout error"

\* maxDelay = 5000 * time.Millisecond, in milliseconds.
maxDelay == 5000

\* The times a waiting select is looked at.
Instants == {0, maxDelay \div 2, maxDelay}

\* What the clients answer on resultStrChan and resultRegChan: ab and c; the
\* patterns a and bc?.
Strs == {<<"a","b">>, <<"c">>}

Regs == {<<Lit(<<"a">>)>>, <<Lit(<<"b">>), Opt({"c"})>>}

\* reg.MatchString(str): the pattern matches somewhere in str.
MatchString(reg, str) == \E at \in 1..(Len(str) + 1) : MatchEnd(reg, str, at) # 0

Sent(ch, value) == [chan |-> ch, value |-> value]

\* requestStrChan <- true, taken by a client; the select that follows starts
\* its timer.
RequestStr ==
    /\ server.pc = "requestStr"
    /\ server.round < MaxRounds
    /\ trace' = Append(trace, Sent("requestStrChan", TRUE))
    /\ server' = [server EXCEPT !.pc = "selectStr"]
    /\ clock' = 0
    /\ UNCHANGED exceptTimeout

\* Time passes at a select whose timer has not fired.
Tick ==
    /\ server.pc \in {"selectStr", "selectReg"}
    /\ clock < maxDelay
    /\ clock' = Min({t \in Instants : t > clock})
    /\ UNCHANGED <<server, trace, exceptTimeout>>

\* case s := <-resultStrChan
ReceiveStr(s) ==
    /\ server.pc = "selectStr"
    /\ trace' = Append(trace, Sent("resultStrChan", s))
    /\ server' = [server EXCEPT !.pc = "requestReg", !.str = s]
    /\ UNCHANGED <<clock, exceptTimeout>>

\* case <-time.After(maxDelay), of either select.
Timeout ==
    /\ server.pc \in {"selectStr", "selectReg"}
    /\ clock = maxDelay
    /\ server' = [server EXCEPT !.pc = "err"]
    /\ UNCHANGED <<clock, trace, exceptTimeout>>

\* errChan <- timeoutErr, taken by a client, and the loop goes on.
SendErr_continues ==
    /\ server.pc = "err"
    /\ trace' = Append(trace, Sent("errChan", timeoutErr))
    /\ server' = [server EXCEPT !.pc = "requestStr"]
    /\ UNCHANGED <<clock, exceptTimeout>>

\* errChan <- timeoutErr, taken by a client; return.
SendErr ==
    /\ server.pc = "err"
    /\ trace' = Append(trace, Sent("errChan", timeoutErr))
    /\ server' = [server EXCEPT !.pc = "returned"]
    /\ UNCHANGED <<clock, exceptTimeout>>

\* requestRegChan <- true
RequestReg ==
    /\ server.pc = "requestReg"
    /\ trace' = Append(trace, Sent("requestRegChan", TRUE))
    /\ server' = [server EXCEPT !.pc = "selectReg"]
    /\ clock' = 0
    /\ UNCHANGED exceptTimeout

\* case r := <-resultRegChan
ReceiveReg(r) ==
    /\ server.pc = "selectReg"
    /\ trace' = Append(trace, Sent("resultRegChan", r))
    /\ server' = [server EXCEPT !.pc = "match", !.reg = r]
    /\ UNCHANGED <<clock, exceptTimeout>>

\* matchChan <- reg.MatchString(str), and the next round of the loop.
SendMatch ==
    /\ server.pc = "match"
    /\ trace' = Append(trace, Sent("matchChan", MatchString(server.reg, server.str)))
    /\ server' = [server EXCEPT !.pc = "requestStr", !.round = @ + 1]
    /\ UNCHANGED <<clock, exceptTimeout>>

\* go ServerWithTimeout(...): str and reg hold their zero values.
InitTimeout ==
    /\ RewriteIdle
    /\ ServerIdle
    /\ disk = {customCss, customJs}
    /\ FinanceIdle
    /\ LogsIdle
    /\ ParserIdle
    /\ BuilderIdle
    /\ MergeIdle
    /\ server = [pc |-> "requestStr", str |-> <<>>, reg |-> <<>>, round |-> 0]
    /\ clock = 0
    /\ trace = <<>>

NextTimeout ==
    \/ RequestStr
    \/ Tick
    \/ \E s \in Strs : ReceiveStr(s)
    \/ Timeout
    \/ SendErr
    \/ RequestReg
    \/ \E r \in Regs : ReceiveReg(r)
    \/ SendMatch

SpecTimeout == InitTimeout /\ [][NextTimeout]_vars

\* The channel operations of one round, in order.
Round == <<"requestStrChan", "resultStrChan", "requestRegChan", "resultRegChan", "matchChan">>

Expected(p) == Round[((p - 1) % Len(Round)) + 1]

\* C28: the channel operations of ServerWithTimeout follow the order of the
\* round (request a string, receive it, request a regexp, receive it, send
\* one match result, which is that of the regexp on the string of the round),
\* except that timeoutErr may stand where a receive was due; the server gives
\* up a receive only when maxDelay has passed; and timeoutErr is the last
\* operation: after it the server has returned.
C28_RoundOrderAndTimeout ==
    /\ \A p \in DOMAIN trace :
          IF trace[p].chan = "errChan"
          THEN /\ Expected(p) \in {"resultStrChan", "resultRegChan"}
               /\ trace[p].value = timeoutErr
               /\ p = Len(trace)
               /\ server.pc = "returned"
          ELSE /\ trace[p].chan = Expected(p)
               /\ trace[p].chan = "matchChan" =>
                     trace[p].value = MatchString(trace[p - 1].value, trace[p - 3].value)
    /\ server.pc \in {"err", "returned"} => clock = maxDelay
    /\ server.pc = "err" =>
          /\ \A p \in DOMAIN trace : trace[p].chan # "errChan"
          /\ Expected(Len(trace) + 1) \in {"resultStrChan", "resultRegChan"}

\* A full round with a match, then a timeout of the second round's regexp.
C28_Witness ==
    /\ server.pc = "returned"
    /\ Len(trace) = Len(Round) + 4
    /\ trace[Len(Round)] = Sent("matchChan", TRUE)
    /\ trace[Len(trace)] = Sent("errChan", timeoutErr)

\* --------------------------------------------------------- OrderBuilder
\* var addOns: the add-on of each known type, its price in cents.
addOns ==
    [t \in {"EXTRA_SHOT", "WHIPPED_CREAM", "CARAMEL", "CHOCOLATE", "SOY_MILK"} |->
        [Type |-> t,
         Price |-> CASE t = "WHIPPED_CREAM" -> 75 [] t = "SOY_MILK" -> 100 [] OTHER -> 50]]

\* The add-on types the callers pass: two of the map and two that are not.
AddOnTypes == {"EXTRA_SHOT", "WHIPPED_CREAM", "OAT_MILK", ""}

\* The promotions the callers pass.
Promotions == {"PercentageDiscount", "FreeExpensiveAddOn"}

CoffeeTypes == {"ESPRESSO", "LATTE"}

CoffeeSizes == {"SMALL", "LARGE"}

\* fmt.Errorf("invalid add-on type: %s", addOnType)
Errorf(addOnType) == <<"invalid add-on type: ", addOnType>>

NotBuilt == [returned |-> FALSE]

Called(op, arg) == [op |-> op, arg |-> arg]

\* NewOrder: an order of the coffee, no add-ons, no promotions, no error.
NewOrder(coffeeType, size) ==
    [order |-> [Coffee |-> [Type |-> coffeeType, Size |-> size],
                AddOns |-> <<>>, Promotions |-> <<>>],
     err |-> "nil"]

AddAddOn(addOnType) ==
    /\ Len(calls) < MaxCalls
    /\ calls' = Append(calls, Called("AddAddOn", addOnType))
    /\ b' = IF b.err # "nil" THEN b
            ELSE IF addOnType \notin DOMAIN addOns
            THEN [b EXCEPT !.err = Errorf(addOnType)]
            ELSE [b EXCEPT !.order.AddOns = Append(@, addOns[addOnType])]
    /\ UNCHANGED <<built, exceptBuilder>>

\* AddPromotion without the test of b.err.
AddPromotion_unguarded(promotion) ==
    /\ Len(calls) < MaxCalls
    /\ calls' = Append(calls, Called("AddPromotion", promotion))
    /\ b' = [b EXCEPT !.order.Promotions = Append(@, promotion)]
    /\ UNCHANGED <<built, exceptBuilder>>

AddPromotion(promotion) ==
    /\ Len(calls) < MaxCalls
    /\ calls' = Append(calls, Called("AddPromotion", promotion))
    /\ b' = IF b.err # "nil" THEN b
            ELSE [b EXCEPT !.order.Promotions = Append(@, promotion)]
    /\ UNCHANGED <<built, exceptBuilder>>

\* Build returns nil and the error, or the address of the builder's order:
\* the order read through it is b.order.
Build ==
    /\ Len(calls) < MaxCalls
    /\ calls' = Append(calls, Called("Build", "nil"))
    /\ built' = IF b.err # "nil"
                THEN [returned |-> TRUE, order |-> "nil", err |-> b.err]
                ELSE [returned |-> TRUE, order |-> "&b.order", err |-> "nil"]
    /\ UNCHANGED <<b, exceptBuilder>>

InitBuilder ==
    /\ RewriteIdle
    /\ ServerIdle
    /\ disk = {customCss, customJs}
    /\ FinanceIdle
    /\ LogsIdle
    /\ ParserIdle
    /\ TimeoutIdle
    /\ MergeIdle
    /\ b \in {NewOrder(coffeeType, size) : coffeeType \in CoffeeTypes, size \in CoffeeSizes}
    /\ calls = <<>>
    /\ built = NotBuilt

NextBuilder ==
    \/ \E addOnType \in AddOnTypes : AddAddOn(addOnType)
    \/ \E promotion \in Promotions : AddPromotion(promotion)
    \/ Build

SpecBuilder == InitBuilder /\ [][NextBuilder]_vars

Unknown(call) == call.op = "AddAddOn" /\ call.arg \notin DOMAIN addOns

\* The calls before the first AddAddOn of an unknown type.
Accepted(history) ==
    LET bad == {p \in DOMAIN history : Unknown(history[p])}
    IN  IF bad = {} THEN history ELSE SubSeq(history, 1, Min(bad) - 1)

FirstError(history) ==
    LET bad == {p \in DOMAIN history : Unknown(history[p])}
    IN  IF bad = {} THEN "nil" ELSE Errorf(history[Min(bad)].arg)

ArgsOf(history, op) ==
    LET kept == SelectSeq(history, LAMBDA call : call.op = op)
    IN  [p \in DOMAIN kept |-> kept[p].arg]

\* The calls up to the last Build.
UntilBuild(history) ==
    SubSeq(history, 1, Max({p \in DOMAIN history : history[p].op = "Build"}))

\* C29: the builder's add-ons and promotions are those of the calls made
\* before the first AddAddOn of an unknown type, in call order, whatever was
\* called after it, and its error is that of this first unknown type; and
\* Build has returned a nil order with that error when an unknown type was
\* added before it, and otherwise the order, which holds those add-ons and
\* promotions, with a nil error.
C29_StickyError ==
    /\ b.err = FirstError(calls)
    /\ LET types == ArgsOf(Accepted(calls), "AddAddOn")
       IN  b.order.AddOns = [p \in DOMAIN types |-> [Type |-> types[p], Price |-> addOns[types[p]].Price]]
    /\ b.order.Promotions = ArgsOf(Accepted(calls), "AddPromotion")
    /\ built.returned =>
          /\ built.err = FirstError(UntilBuild(calls))
          /\ built.order = IF built.err = "nil" THEN "&b.order" ELSE "nil"

\* An add-on, an unknown type, then a promotion that is dropped.
C29_Witness ==
    /\ Len(calls) = MaxCalls
    /\ calls[1] = Called("AddAddOn", "WHIPPED_CREAM")
    /\ calls[2] = Called("AddAddOn", "OAT_MILK")
    /\ calls[MaxCalls].op = "AddPromotion"
    /\ b.order.Promotions = <<>>
    /\ b.order.AddOns = <<[Type |-> "WHIPPED_CREAM", Price |-> 75]>>

\* ---------------------------------------------------------------- merge
\* The sorted slices of up to MaxNums numbers.
SortedNums ==
    {nums \in UNION {[1..len -> 1..MaxNumber] : len \in 0..MaxNums} :
        \A p \in 1..(Len(nums) - 1) : nums[p] <= nums[p + 1]}

\* nums1 with room for nums2 after its m numbers: the room holds zeros.
WithRoom(nums, room) == nums \o [p \in 1..room |-> 0]

\* for i < m && j < n: one pass of the body (indices count from 0 in the
\* source and the slices from 1 here).
MergeBoth ==
    /\ frame.pc = "merge"
    /\ frame.i < frame.m /\ frame.j < frame.n
    /\ frame' =
          IF frame.nums1[frame.i + 1] < frame.nums2[frame.j + 1]
          THEN [frame EXCEPT !.nums1[frame.k + 1] = frame.nums1[frame.i + 1],
                             !.i = @ + 1, !.k = @ + 1]
          ELSE [frame EXCEPT !.nums1[frame.k + 1] = frame.nums2[frame.j + 1],
                             !.j = @ + 1, !.k = @ + 1]
    /\ UNCHANGED <<given, exceptMerge>>

\* for i < m: one pass, once the first loop has ended.
CopyFirst ==
    /\ frame.pc = "merge"
    /\ ~(frame.i < frame.m /\ frame.j < frame.n)
    /\ frame.i < frame.m
    /\ frame' = [frame EXCEPT !.nums1[frame.k + 1] = frame.nums1[frame.i + 1],
                              !.i = @ + 1, !.k = @ + 1]
    /\ UNCHANGED <<given, exceptMerge>>

\* for j < n: one pass, once the second loop has ended.
CopySecond ==
    /\ frame.pc = "merge"
    /\ ~(frame.i < frame.m)
    /\ frame.j < frame.n
    /\ frame' = [frame EXCEPT !.nums1[frame.k + 1] = frame.nums2[frame.j + 1],
                              !.j = @ + 1, !.k = @ + 1]
    /\ UNCHANGED <<given, exceptMerge>>

MergeReturns ==
    /\ frame.pc = "merge"
    /\ ~(frame.i < frame.m)
    /\ ~(frame.j < frame.n)
    /\ frame' = [frame EXCEPT !.pc = "returned"]
    /\ UNCHANGED <<given, exceptMerge>>

\* merge(nums1, m, nums2, n) is called: i, j and k are 0.
InitMerge ==
    /\ RewriteIdle
    /\ ServerIdle
    /\ disk = {customCss, customJs}
    /\ FinanceIdle
    /\ LogsIdle
    /\ ParserIdle
    /\ TimeoutIdle
    /\ BuilderIdle
    /\ \E first \in SortedNums, second \in SortedNums :
          /\ given = [nums1 |-> first, nums2 |-> second]
          /\ frame = [pc |-> "merge", nums1 |-> WithRoom(first, Len(second)),
                      m |-> Len(first), nums2 |-> second, n |-> Len(second),
                      i |-> 0, j |-> 0, k |-> 0]

NextMerge ==
    \/ MergeBoth
    \/ CopyFirst
    \/ CopySecond
    \/ MergeReturns

SpecMerge == InitMerge /\ [][NextMerge]_vars

Occurrences(nums, number) == Cardinality({p \in DOMAIN nums : nums[p] = number})

\* C30: when merge has returned, nums1[0..m+n) is sorted and holds each
\* number as often as the two slices given held it together.
C30_MergedSortedUnion ==
    frame.pc = "returned" =>
        LET merged == SubSeq(frame.nums1, 1, frame.m + frame.n)
        IN  /\ \A p \in 1..(Len(merged) - 1) : merged[p] <= merged[p + 1]
            /\ \A number \in 1..MaxNumber :
                  Occurrences(merged, number) =
                     Occurrences(given.nums1, number) + Occurrences(given.nums2, number)


====
